---- MODULE Spec2Model ----
(***************************************************************************)
(* Fall-decision engine of the elderly fall detection system:              *)
(*   pose_detection/utils/angle_calc.py  (geometry, AngleTracker)          *)
(*   pose_detection/fall_detector.py     (FallDetector)                    *)
(*                                                                         *)
(* Number representation.  Python floats are modelled by exact integers:   *)
(*   - an angle is its whole number of degrees (floor); the source only    *)
(*     compares angles with >= against thresholds, and for a whole-degree  *)
(*     threshold  a >= t  <=>  floor(a) >= t;                              *)
(*   - a distance is its ceiling; the source only compares distances with  *)
(*     > against thresholds, and for a whole threshold                     *)
(*     x > t  <=>  ceil(x) > t;                                            *)
(*   - a head-height ratio and head_drop_threshold are numerators over     *)
(*     HeightDen (nose_y / frame_height = n / HeightDen); where a          *)
(*     difference equals its threshold exactly, FloatTies says what the    *)
(*     rounded doubles give;                                               *)
(*   - a confidence is a fraction <<num, den>> with den > 0;               *)
(*   - time.time() is an integer clock.                                    *)
(* An Optional value is <<>> (None) or <<v>>.                              *)
(***************************************************************************)
EXTENDS Integers, Sequences, FiniteSets, TLC

VARIABLES
    cfg,                      \* the constructor arguments kept by FallDetector
    history_size,             \* AngleTracker.history_size
    torso_history,            \* AngleTracker.torso_history
    center_history,           \* AngleTracker.center_history
    head_height_history,      \* AngleTracker.head_height_history
    consecutive_detections,   \* FallDetector.consecutive_detections
    last_alert_time,          \* FallDetector.last_alert_time
    baseline_head_height,     \* FallDetector.baseline_head_height
    baseline_center,          \* FallDetector.baseline_center
    is_calibrated,            \* FallDetector.is_calibrated
    now,                      \* the value time.time() returns
    result,                   \* outcome of the last detect call
    frames,                   \* number of detect / update calls made so far
    seen,                     \* history: the joints present in the last frame
    alarm_time,               \* history: time of the last returned alarm, <<>> if none or reset
    prev_alarm_time,          \* history: time of the returned alarm before that one, <<>> if none or reset
    run,                      \* history: run of frames triggering one and the same rule
    arrivals,                 \* history: every present sample fed to each buffer since reset
    pc,                       \* main loop: "frame" (reads a frame next), "key", "stopped", "crashed"
    detected,                 \* main loop: PoseDetector.detect found a person in the last frame
    frame_landmarks,          \* the joint map last handed to detect
    notifier,                 \* ElderlyFallDetectionSystem.notifier is not None
    notified,                 \* what the notifier was invoked with for the last frame, <<>> if it was not
    calls,                    \* detect calls made from threads: each thread's position and locals
    answer,                   \* what the last call of a pure function or tracker query returned
    peer                      \* a second FallDetector instance: its name and its fields

tracker == <<history_size, torso_history, center_history, head_height_history>>
alert_state == <<consecutive_detections, last_alert_time>>
baseline == <<baseline_head_height, baseline_center, is_calibrated>>
app == <<pc, detected, frame_landmarks, notifier, notified, calls>>
vars == <<cfg, history_size, torso_history, center_history, head_height_history,
          consecutive_detections, last_alert_time, baseline_head_height,
          baseline_center, is_calibrated, now, result, frames, seen,
          alarm_time, prev_alarm_time, run, arrivals, pc, detected, frame_landmarks, notifier, notified, calls,
          answer, peer>>

----------------------------------------------------------------------------
(* Bounds of the model *)

\* detect calls in Spec, and in SpecSession
MaxFrames == 2
MaxSessionFrames == 5
\* main-loop iterations in SpecApp
MaxAppFrames == 3
\* detect calls in SpecRules
MaxRuleFrames == 2
\* detect calls in SpecInstances, on both instances together
MaxInstanceFrames == 2
\* frames fed to each of the two engines of SpecCooldownTwin and SpecCalibrationTwin
MaxTwinFrames == 2
\* largest clock value, and largest clock advance inside one detect call
MaxTime == 2
MaxDrift == 1
\* SpecTracker: largest history_size, and number of update calls
MaxHistory == 2
MaxUpdates == 3
\* SpecWindow: number of center points fed to the tracker
MaxCenters == 6

----------------------------------------------------------------------------
(* Optional values and small helpers *)

None == <<>>
Some(v) == <<v>>
Val(o) == o[1]

Abs(x) == IF x < 0 THEN -x ELSE x
Min(a, b) == IF a <= b THEN a ELSE b
Max(a, b) == IF a >= b THEN a ELSE b

\* int(a / b) for b > 0: Python's int() truncates toward zero
TruncDiv(a, b) == IF a >= 0 THEN a \div b ELSE -((-a) \div b)

RECURSIVE SqrtIter(_, _, _)
SqrtIter(n, lo, hi) ==
    IF lo >= hi THEN lo
    ELSE LET mid == (lo + hi) \div 2
         IN  IF mid * mid >= n THEN SqrtIter(n, lo, mid)
                               ELSE SqrtIter(n, mid + 1, hi)

\* ceiling of math.sqrt(n); 46340 is the largest root of a 32-bit square
CeilSqrt(n) == SqrtIter(n, 0, Min(n, 46340))

RECURSIVE SeqMax(_)
SeqMax(s) == IF Len(s) = 1 THEN s[1] ELSE Max(s[1], SeqMax(Tail(s)))

\* Python sequence index, negative indices counting from the end
PyIndex(s, i) == IF i < 0 THEN s[Len(s) + i + 1] ELSE s[i + 1]

----------------------------------------------------------------------------
(* AlertSeverity *)

NONE == 0
MILD == 1
SEVERE == 2

----------------------------------------------------------------------------
(* math.degrees(math.atan2(ax, ay)) as whole degrees.                      *)
(* TanCeil[d+1] = ceil(tan(d deg) * 10^8), TanFloor[d+1] = floor(...),      *)
(* d in 0..45; angles above 45 degrees are decided on the cotangent.        *)
(* The comparison is split in two halves of four digits to stay inside     *)
(* 32-bit integers; it is exact for |dx|, |dy| < 700.                       *)

TanCeil == <<0, 1745507, 3492077, 5240778, 6992682, 8748867, 10510424, 12278457, 14054084, 15838445, 17632699, 19438031, 21255657, 23086820, 24932801, 26794920, 28674539, 30573069, 32491970, 34432762, 36397024, 38386404, 40402623, 42447482, 44522869, 46630766, 48773259, 50952545, 53170944, 55430906, 57735027, 60086062, 62486936, 64940760, 67450852, 70020754, 72654253, 75355406, 78128563, 80978404, 83909964, 86928674, 90040405, 93251509, 96568878, 100000000>>

TanFloor == <<0, 1745506, 3492076, 5240777, 6992681, 8748866, 10510423, 12278456, 14054083, 15838444, 17632698, 19438030, 21255656, 23086819, 24932800, 26794919, 28674538, 30573068, 32491969, 34432761, 36397023, 38386403, 40402622, 42447481, 44522868, 46630765, 48773258, 50952544, 53170943, 55430905, 57735026, 60086061, 62486935, 64940759, 67450851, 70020753, 72654252, 75355405, 78128562, 80978403, 83909963, 86928673, 90040404, 93251508, 96568877, 100000000>>

\* atan2(ax, ay) >= d degrees, for ax, ay >= 0 not both 0 and d in 0..90
AtanAtLeast(ax, ay, d) ==
    IF d <= 45
    THEN LET T == TanCeil[d + 1]
         IN  ax * 10000 - (T \div 10000) * ay >= ((T % 10000) * ay + 9999) \div 10000
    ELSE LET T == TanFloor[90 - d + 1]
         IN  ay * 10000 - (T \div 10000) * ax <= ((T % 10000) * ax) \div 10000

\* the largest d in lo..hi with atan2(ax, ay) >= d degrees (it holds at lo)
RECURSIVE WholeDegrees(_, _, _, _)
WholeDegrees(ax, ay, lo, hi) ==
    IF lo >= hi THEN lo
    ELSE LET mid == (lo + hi + 1) \div 2
         IN  IF AtanAtLeast(ax, ay, mid) THEN WholeDegrees(ax, ay, mid, hi)
                                         ELSE WholeDegrees(ax, ay, lo, mid - 1)

calculate_angle_from_vertical(point1, point2) ==
    LET dx == point2[1] - point1[1]
        dy == point2[2] - point1[2]
    IN  IF dx = 0 /\ dy = 0 THEN 0
        ELSE WholeDegrees(Abs(dx), Abs(dy), 0, 90)

TorsoJoints == {"left_shoulder", "right_shoulder", "left_hip", "right_hip"}

\* variant: the line from the left shoulder to the right hip instead of the midpoints
calculate_torso_angle_diagonal(landmarks) ==
    IF ~(TorsoJoints \subseteq DOMAIN landmarks) THEN None
    ELSE Some(calculate_angle_from_vertical(landmarks["left_shoulder"], landmarks["right_hip"]))

calculate_torso_angle(landmarks) ==
    IF ~(TorsoJoints \subseteq DOMAIN landmarks) THEN None
    ELSE LET shoulder_mid == <<TruncDiv(landmarks["left_shoulder"][1] + landmarks["right_shoulder"][1], 2),
                               TruncDiv(landmarks["left_shoulder"][2] + landmarks["right_shoulder"][2], 2)>>
             hip_mid == <<TruncDiv(landmarks["left_hip"][1] + landmarks["right_hip"][1], 2),
                          TruncDiv(landmarks["left_hip"][2] + landmarks["right_hip"][2], 2)>>
         IN  Some(calculate_angle_from_vertical(shoulder_mid, hip_mid))

\* ((ls + rs) / 2 + lh + rh) / 3 = (ls + rs + 2 lh + 2 rh) / 6, then int()
calculate_body_center(landmarks) ==
    IF ~(TorsoJoints \subseteq DOMAIN landmarks) THEN None
    ELSE LET ls == landmarks["left_shoulder"]
             rs == landmarks["right_shoulder"]
             lh == landmarks["left_hip"]
             rh == landmarks["right_hip"]
         IN  Some(<<TruncDiv(ls[1] + rs[1] + 2 * lh[1] + 2 * rh[1], 6),
                    TruncDiv(ls[2] + rs[2] + 2 * lh[2] + 2 * rh[2], 6)>>)

\* denominator of every head-height ratio and of head_drop_threshold
HeightDen == 480

\* nose_y / frame_height divides by zero when frame_height = 0
HeadHeightRaises(landmarks, frame_height) ==
    "nose" \in DOMAIN landmarks /\ frame_height = 0

\* nose_y / frame_height as a numerator over HeightDen (frame_height divides HeightDen)
calculate_head_height_ratio(landmarks, frame_height) ==
    IF "nose" \notin DOMAIN landmarks THEN None
    ELSE Some(landmarks["nose"][2] * (HeightDen \div frame_height))

calculate_center_shift(current_center, previous_center) ==
    LET dx == current_center[1] - previous_center[1]
        dy == current_center[2] - previous_center[2]
    IN  CeilSqrt(dx * dx + dy * dy)

----------------------------------------------------------------------------
(* AngleTracker *)

\* variant: the newest sample is dropped instead of the oldest
Push_drop_newest(buf, v, size) ==
    LET b == Append(buf, v)
    IN  IF Len(b) > size THEN SubSeq(b, 1, Len(b) - 1) ELSE b

\* list.append(v), then pop(0) when the list is longer than history_size
Push(buf, v, size) ==
    LET b == Append(buf, v)
    IN  IF Len(b) > size THEN Tail(b) ELSE b

\* variant: an absent value takes a slot, the oldest entry of a full buffer leaves
UpdateBuffer_evict(buf, value, size) ==
    IF value # None THEN Push(buf, Val(value), size)
    ELSE IF Len(buf) >= size THEN Tail(buf) ELSE buf

\* one buffer's part of AngleTracker.update: an absent value leaves it alone
UpdateBuffer(buf, value, size) ==
    IF value # None THEN Push(buf, Val(value), size) ELSE buf

get_center_shift(centers) ==
    IF Len(centers) < 2 THEN None
    ELSE Some(calculate_center_shift(PyIndex(centers, -1), PyIndex(centers, -2)))

\* variant: the difference is taken the other way round
get_head_height_change_reversed(heads) ==
    IF Len(heads) < 2 THEN None
    ELSE Some(PyIndex(heads, -2) - PyIndex(heads, -1))

get_head_height_change(heads) ==
    IF Len(heads) < 2 THEN None
    ELSE Some(PyIndex(heads, -1) - PyIndex(heads, -2))

\* variant: the net displacement over the window, first point to last
get_max_center_shift_net(centers, n) ==
    IF Len(centers) < 2 THEN None
    ELSE LET check_frames == Min(n, Len(centers) - 1)
         IN  IF check_frames > 0
             THEN Some(calculate_center_shift(PyIndex(centers, -1),
                                              PyIndex(centers, -check_frames - 1)))
             ELSE None

get_max_center_shift(centers, n) ==
    IF Len(centers) < 2 THEN None
    ELSE LET check_frames == Min(n, Len(centers) - 1)
             shifts == [k \in 1..Max(check_frames, 0) |->
                          LET i == k - check_frames - 1
                          IN  calculate_center_shift(PyIndex(centers, i),
                                                     PyIndex(centers, i - 1))]
         IN  IF Len(shifts) > 0 THEN Some(SeqMax(shifts)) ELSE None

\* variant: the three lists are class attributes, one list object for all instances
Aliased_class_attribute == {"torso", "center", "head"}

\* the buffers whose list object two AngleTracker instances share:
\* __init__ binds a new empty list to each attribute of each instance
Aliased == {}

\* list.append, pop and clear change a list in place: the second instance sees
\* this instance's new buffers through every list object the two share
PeerAfter ==
    IF peer.name = "none" THEN peer
    ELSE [peer EXCEPT
            !.torso_history = IF "torso" \in Aliased THEN torso_history' ELSE @,
            !.center_history = IF "center" \in Aliased THEN center_history' ELSE @,
            !.head_height_history = IF "head" \in Aliased THEN head_height_history' ELSE @]

\* history: what arrived at a buffer, never evicted
Arrive(log, value) == IF value # None THEN Append(log, Val(value)) ELSE log

----------------------------------------------------------------------------
(* FallDetector: configuration *)

\* AngleTracker(history_size=30) built by FallDetector.__init__
EngineHistorySize == 30

\* get_max_center_shift(frames=5) asked by _check_center_shift
ShiftWindow == 5

\* arguments the constructor is called with; it stores them unchecked
TorsoThresholdArgs == {35}
HeadDropArgs == {100}
CenterShiftArgs == {150}
ConsecutiveFramesArgs == {-1, 0, 1, 2}
CooldownArgs == {-1, 2}
MildRangeArgs == {<<35, 50>>}
SevereMinArgs == {50}

ConstructorArgs ==
    [torso_angle_threshold : TorsoThresholdArgs,
     head_drop_threshold : HeadDropArgs,
     center_shift_threshold : CenterShiftArgs,
     consecutive_frames : ConsecutiveFramesArgs,
     cooldown_seconds : CooldownArgs,
     mild_angle_range : MildRangeArgs,
     severe_angle_min : SevereMinArgs]

----------------------------------------------------------------------------
(* FallDetector: rules *)

check_torso_angle(c, angle) ==
    IF angle >= c.severe_angle_min THEN <<TRUE, SEVERE>>
    ELSE IF angle >= c.mild_angle_range[1] THEN <<TRUE, MILD>>
    ELSE <<FALSE, NONE>>

\* Python floats at an exact tie: the head heights a, b and thresholds t (all
\* numerators over HeightDen) with a - b = t for which the rounded doubles still
\* give a/480 - b/480 > t/480, among the head heights used in this module
\* (48, 100, 200, 248, 400, 420, 500) and t = 100, 200
FloatTies == {<<248, 48, 200>>, <<500, 400, 100>>}

\* diff > t, where diff is the float a/480 - b/480
Exceeds(diff, a, b, t) == diff > t \/ (diff = t /\ <<a, b, t>> \in FloatTies)

\* variant: the comparisons are not strict
check_head_drop_nonstrict(c, heads, base, current_height) ==
    LET height_change == get_head_height_change(heads)
    IN  IF height_change # None /\ Val(height_change) >= c.head_drop_threshold THEN TRUE
        ELSE IF base # None /\ current_height - Val(base) >= c.head_drop_threshold * 2 THEN TRUE
        ELSE FALSE

\* variant: with a baseline only the baseline is compared
check_head_drop_baseline_only(c, heads, base, current_height) ==
    LET height_change == get_head_height_change(heads)
    IN  IF base # None
        THEN Exceeds(current_height - Val(base), current_height, Val(base),
                     c.head_drop_threshold * 2)
        ELSE /\ height_change # None
             /\ Exceeds(Val(height_change), PyIndex(heads, -1), PyIndex(heads, -2),
                        c.head_drop_threshold)

check_head_drop(c, heads, base, current_height) ==
    LET height_change == get_head_height_change(heads)
    IN  IF /\ height_change # None
           /\ Exceeds(Val(height_change), PyIndex(heads, -1), PyIndex(heads, -2),
                      c.head_drop_threshold)
        THEN TRUE
        ELSE IF /\ base # None
                /\ Exceeds(current_height - Val(base), current_height, Val(base),
                           c.head_drop_threshold * 2)
        THEN TRUE
        ELSE FALSE

check_center_shift(c, centers) ==
    LET max_shift == get_max_center_shift(centers, ShiftWindow)
    IN  max_shift # None /\ Val(max_shift) > c.center_shift_threshold

\* variant: the cooldown ends one second early
is_in_cooldown_short(t, last, cooldown) == (t - last) < cooldown - 1

\* variant: the instant the cooldown ends still counts as cooldown
is_in_cooldown_inclusive(t, last, cooldown) == (t - last) <= cooldown

is_in_cooldown(t, last, cooldown) == (t - last) < cooldown

\* consecutive_detections / consecutive_frames divides by zero
ConfidenceRaises(c) == c.consecutive_frames = 0

\* trigger_count / 3 * (1.2 | 1.0) * (0.5 + 0.5 * min(cd / cf, 1)), min with 1,
\* as the fraction num / (60 * |cf|)
calculate_confidence(c, cd, trigger_count, severity) ==
    LET acf == Abs(c.consecutive_frames)
        sev10 == IF severity = SEVERE THEN 12 ELSE 10
        ratio_num == IF c.consecutive_frames > 0 THEN cd ELSE -cd
        frame_ratio == Min(ratio_num, acf)
        num == trigger_count * sev10 * (acf + frame_ratio)
        den == 60 * acf
    IN  IF num > den THEN <<den, den>> ELSE <<num, den>>

----------------------------------------------------------------------------
(* DetectionResult, and how a detect call ended *)

NoResult ==
    [status |-> "none", is_fall_detected |-> FALSE, severity |-> NONE,
     torso_angle |-> None, head_height |-> None, center_shift |-> None,
     trigger_reasons |-> <<>>, timestamp |-> 0, confidence |-> <<0, 1>>]

Raised == [NoResult EXCEPT !.status = "ZeroDivisionError"]

TorsoReason(angle) == <<"torso", angle>>
HeadReason == <<"head">>
CenterReason == <<"center">>

\* the rules named by a list of trigger reasons
RulesOf(reasons) == {reasons[i][1] : i \in DOMAIN reasons}

\* history: the frames seen since the alert state was last cleared (by "init" or
\* "force_reset_cooldown"): len of them, each triggering exactly the one rule
\* `rule`; len = -1 once a frame did anything else
FreshRun(start) == [start |-> start, rule |-> "none", len |-> 0]
BrokenRun(r) == [start |-> r.start, rule |-> "none", len |-> -1]
RunAfter(r, reasons) ==
    IF Len(reasons) = 1 /\ r.len >= 0 /\ (r.len = 0 \/ r.rule = reasons[1][1])
    THEN [start |-> r.start, rule |-> reasons[1][1], len |-> r.len + 1]
    ELSE BrokenRun(r)

----------------------------------------------------------------------------
(* Inputs: joint maps the pose source can deliver, and frame heights *)

Joints == {"nose", "left_shoulder", "right_shoulder", "left_hip", "right_hip"}

\* upright: torso 0 degrees (scenario A of the specification)
StandPose ==
    [j \in Joints |->
        CASE j = "nose" -> <<150, 48>>
          [] j = "left_shoulder" -> <<100, 100>>
          [] j = "right_shoulder" -> <<200, 100>>
          [] j = "left_hip" -> <<100, 300>>
          [] j = "right_hip" -> <<200, 300>>]

\* lying: torso 90 degrees, center far from StandPose, nose low
FallenPose ==
    [j \in Joints |->
        CASE j = "nose" -> <<250, 420>>
          [] j = "left_shoulder" -> <<300, 400>>
          [] j = "right_shoulder" -> <<300, 440>>
          [] j = "left_hip" -> <<450, 400>>
          [] j = "right_hip" -> <<450, 440>>]

Poses == {StandPose, FallenPose}

\* the joints of a pose the pose source reports
Restrict(pose, js) == [j \in js |-> pose[j]]

\* which joints the pose source reports: all, all but the nose, none
Masks == {Joints, Joints \ {"nose"}, {}}

JointMaps == {Restrict(p, js) : p \in Poses, js \in Masks}

\* the detect calls of Spec: every joint map on a 480-row frame, and a full map
\* on a frame of height 0
DetectCalls ==
    {<<lm, 480>> : lm \in JointMaps} \cup {<<Restrict(StandPose, Joints), 0>>}

CalibrateHeads == {48}
CalibrateCenters == {<<150, 233>>}

----------------------------------------------------------------------------
(* FallDetector.__init__ *)

Construct(c) ==
    /\ cfg = c
    /\ history_size = EngineHistorySize
    /\ torso_history = <<>>
    /\ center_history = <<>>
    /\ head_height_history = <<>>
    /\ consecutive_detections = 0
    /\ last_alert_time = 0
    /\ baseline_head_height = None
    /\ baseline_center = None
    /\ is_calibrated = FALSE
    /\ result = NoResult
    /\ frames = 0
    /\ seen = {}
    /\ alarm_time = None
    /\ prev_alarm_time = None
    /\ run = FreshRun("init")
    /\ arrivals = [torso |-> <<>>, center |-> <<>>, head |-> <<>>]

\* no function was called yet
NoAnswer == [op |-> "none", arg |-> <<>>, value |-> <<>>]

\* no second instance was built
NoPeer == [name |-> "none"]

\* no thread besides the main loop
NoCalls == <<>>

\* ElderlyFallDetectionSystem before the first iteration of its main loop
AppStart(n) ==
    /\ pc = "frame"
    /\ detected = FALSE
    /\ frame_landmarks = <<>>
    /\ notifier = n
    /\ notified = None
    /\ calls = NoCalls
    /\ answer = NoAnswer

Init ==
    /\ now = 0
    /\ \E c \in ConstructorArgs : Construct(c)
    /\ AppStart(FALSE)
    /\ peer = NoPeer

----------------------------------------------------------------------------
(* FallDetector.detect *)

\* the call raises in calculate_head_height_ratio, before anything is written
DetectRaisesEarly(landmarks, frame_height) ==
    /\ HeadHeightRaises(landmarks, frame_height)
    /\ result' = Raised
    /\ run' = BrokenRun(run)
    /\ UNCHANGED <<tracker, alert_state, now, alarm_time, prev_alarm_time, arrivals>>

\* the three features of a frame (detect, "計算各項指標")
Features(landmarks, frame_height) ==
    [torso_angle |-> calculate_torso_angle(landmarks),
     body_center |-> calculate_body_center(landmarks),
     head_height |-> calculate_head_height_ratio(landmarks, frame_height)]

\* AngleTracker.update on the three buffers
TrackerUpdate(f) ==
    [torso |-> UpdateBuffer(torso_history, f.torso_angle, history_size),
     center |-> UpdateBuffer(center_history, f.body_center, history_size),
     head |-> UpdateBuffer(head_height_history, f.head_height, history_size)]

\* variant: a center-shift trigger sets the severity to MILD whatever it was
Rules_center_overrides(f, t) ==
    LET torso_check == IF f.torso_angle # None
                       THEN check_torso_angle(cfg, Val(f.torso_angle))
                       ELSE <<FALSE, NONE>>
        head_hit == /\ f.head_height # None
                    /\ check_head_drop(cfg, t.head, baseline_head_height, Val(f.head_height))
        center_hit == check_center_shift(cfg, t.center)
        severity1 == IF torso_check[1] /\ torso_check[2] > NONE THEN torso_check[2] ELSE NONE
        severity2 == IF head_hit /\ severity1 = NONE THEN MILD ELSE severity1
    IN  [trigger_reasons |->
             (IF torso_check[1] THEN <<TorsoReason(Val(f.torso_angle))>> ELSE <<>>)
             \o (IF head_hit THEN <<HeadReason>> ELSE <<>>)
             \o (IF center_hit THEN <<CenterReason>> ELSE <<>>),
         max_severity |-> IF center_hit THEN MILD ELSE severity2]

\* the three rules on the updated tracker t: reasons in order, and max_severity
Rules(f, t) ==
    LET torso_check == IF f.torso_angle # None
                       THEN check_torso_angle(cfg, Val(f.torso_angle))
                       ELSE <<FALSE, NONE>>
        head_hit == /\ f.head_height # None
                    /\ check_head_drop(cfg, t.head, baseline_head_height, Val(f.head_height))
        center_hit == check_center_shift(cfg, t.center)
        severity1 == IF torso_check[1] /\ torso_check[2] > NONE THEN torso_check[2] ELSE NONE
        severity2 == IF head_hit /\ severity1 = NONE THEN MILD ELSE severity1
    IN  [trigger_reasons |->
             (IF torso_check[1] THEN <<TorsoReason(Val(f.torso_angle))>> ELSE <<>>)
             \o (IF head_hit THEN <<HeadReason>> ELSE <<>>)
             \o (IF center_hit THEN <<CenterReason>> ELSE <<>>),
         max_severity |-> IF center_hit /\ severity2 = NONE THEN MILD ELSE severity2]

\* variant: a triggering frame counts twice
Debounce_double(cd, trigger_count) ==
    IF trigger_count > 0 THEN cd + 2 ELSE Max(0, cd - 1)

\* variant: a frame without a trigger resets the counter to zero
Debounce_reset(cd, trigger_count) ==
    IF trigger_count > 0 THEN cd + 1 ELSE 0

\* variant: the counter is left alone while the engine is in cooldown
Debounce_frozen_in_cooldown(cd, trigger_count) ==
    IF (now - last_alert_time) < cfg.cooldown_seconds THEN cd
    ELSE IF trigger_count > 0 THEN cd + 1 ELSE Max(0, cd - 1)

\* the debounce counter after a frame with the given number of triggered rules
Debounce(cd, trigger_count) ==
    IF trigger_count > 0 THEN cd + 1 ELSE Max(0, cd - 1)

\* variant: cross-validation asks for all three rules
Qualifies_three(trigger_count, cd, consecutive_frames) ==
    trigger_count >= 3 \/ cd >= consecutive_frames

\* "多條件交叉驗證": at least two rules, or enough consecutive frames
Qualifies(trigger_count, cd, consecutive_frames) ==
    trigger_count >= 2 \/ cd >= consecutive_frames

\* d1: clock advance between the cooldown check and the write of last_alert_time,
\* d2: between that write and the timestamp of the result
DetectRuns(landmarks, frame_height, d1, d2) ==
    /\ ~HeadHeightRaises(landmarks, frame_height)
    /\ \E f \in {Features(landmarks, frame_height)} :
       \E t \in {TrackerUpdate(f)} :
       \E r \in {Rules(f, t)} :
       \E cd \in {Debounce(consecutive_detections, Len(r.trigger_reasons))} :
       \E should_alert \in
              {/\ Qualifies(Len(r.trigger_reasons), cd, cfg.consecutive_frames)
               /\ ~is_in_cooldown(now, last_alert_time, cfg.cooldown_seconds)} :
          /\ (should_alert \/ d1 = 0)    \* the clock is read again only to record an alarm
          /\ torso_history' = t.torso
          /\ center_history' = t.center
          /\ head_height_history' = t.head
          /\ history_size' = history_size
          /\ arrivals' = [torso |-> Arrive(arrivals.torso, f.torso_angle),
                          center |-> Arrive(arrivals.center, f.body_center),
                          head |-> Arrive(arrivals.head, f.head_height)]
          /\ consecutive_detections' = cd
          /\ last_alert_time' = IF should_alert THEN now + d1 ELSE last_alert_time
          /\ now' = now + d1 + d2
          /\ IF ConfidenceRaises(cfg)
             THEN /\ result' = Raised
                  /\ run' = BrokenRun(run)
                  /\ alarm_time' = alarm_time
                  /\ prev_alarm_time' = prev_alarm_time
             ELSE /\ result' =
                       [status |-> "ok",
                        is_fall_detected |-> should_alert,
                        severity |-> r.max_severity,
                        torso_angle |-> f.torso_angle,
                        head_height |-> f.head_height,
                        center_shift |-> get_center_shift(t.center),
                        trigger_reasons |-> r.trigger_reasons,
                        timestamp |-> now + d1 + d2,
                        confidence |-> calculate_confidence(cfg, cd, Len(r.trigger_reasons),
                                                            r.max_severity)]
                  /\ run' = RunAfter(run, r.trigger_reasons)
                  /\ alarm_time' = IF should_alert THEN Some(now + d1) ELSE alarm_time
                  /\ prev_alarm_time' = IF should_alert THEN alarm_time ELSE prev_alarm_time

Detect(landmarks, frame_height, d1, d2) ==
    /\ now + d1 + d2 <= MaxTime
    /\ frames' = frames + 1
    /\ seen' = DOMAIN landmarks
    /\ \/ DetectRaisesEarly(landmarks, frame_height) /\ d1 = 0 /\ d2 = 0
       \/ DetectRuns(landmarks, frame_height, d1, d2)
    /\ peer' = PeerAfter
    /\ UNCHANGED <<cfg, baseline, answer>>

----------------------------------------------------------------------------
(* The other calls, and the clock *)

\* variant: a baseline once stored is kept, only the first call takes effect
Calibrate_keeps_first(head_height, center) ==
    /\ baseline_head_height' = IF is_calibrated THEN baseline_head_height ELSE Some(head_height)
    /\ baseline_center' = IF is_calibrated THEN baseline_center ELSE Some(center)
    /\ is_calibrated' = TRUE
    /\ UNCHANGED <<cfg, tracker, alert_state, now, result, frames, seen, alarm_time, prev_alarm_time, run,
                   arrivals, answer, peer>>

Calibrate(head_height, center) ==
    /\ baseline_head_height' = Some(head_height)
    /\ baseline_center' = Some(center)
    /\ is_calibrated' = TRUE
    /\ UNCHANGED <<cfg, tracker, alert_state, now, result, frames, seen, alarm_time, prev_alarm_time, run,
                   arrivals, answer, peer>>

\* variant: the baseline is cleared, the tracker is left as it is
ResetCalibration_keeps_tracker ==
    /\ baseline_head_height' = None
    /\ baseline_center' = None
    /\ is_calibrated' = FALSE
    /\ peer' = PeerAfter
    /\ UNCHANGED <<cfg, tracker, alert_state, now, result, frames, seen, alarm_time,
                   prev_alarm_time, run, arrivals, app, answer>>

ResetCalibration ==
    /\ baseline_head_height' = None
    /\ baseline_center' = None
    /\ is_calibrated' = FALSE
    /\ torso_history' = <<>>
    /\ center_history' = <<>>
    /\ head_height_history' = <<>>
    /\ arrivals' = [torso |-> <<>>, center |-> <<>>, head |-> <<>>]
    /\ peer' = PeerAfter
    /\ UNCHANGED <<cfg, history_size, alert_state, now, result, frames, seen, alarm_time, prev_alarm_time, run,
                   app, answer>>

ForceResetCooldown ==
    /\ last_alert_time' = 0
    /\ consecutive_detections' = 0
    /\ alarm_time' = None
    /\ prev_alarm_time' = None
    /\ run' = FreshRun("force_reset_cooldown")
    /\ UNCHANGED <<cfg, tracker, baseline, now, result, frames, seen, arrivals, answer, peer>>

\* time passes between calls
Tick ==
    /\ now < MaxTime
    /\ now' = now + 1
    /\ UNCHANGED <<cfg, tracker, alert_state, baseline, result, frames, seen,
                   alarm_time, prev_alarm_time, run, arrivals, app, answer, peer>>

Drifts == 0..MaxDrift

\* any sequence of calls on an instance built with any arguments
Next ==
    \/ \E call \in DetectCalls, d1 \in Drifts : \E d2 \in 0..(MaxDrift - d1) :
           frames < MaxFrames /\ Detect(call[1], call[2], d1, d2) /\ UNCHANGED app
    \/ \E h \in CalibrateHeads, c \in CalibrateCenters : Calibrate(h, c) /\ UNCHANGED app
    \/ ResetCalibration
    \/ ForceResetCooldown /\ UNCHANGED app
    \/ Tick

Spec == Init /\ [][Next]_vars

----------------------------------------------------------------------------
(* A monitoring session: an instance built with arguments that the         *)
(* validation of section 7 of the specification would accept, fed frames   *)
(* of one camera, no key pressed.                                          *)

ValidConfig(c) ==
    /\ c.torso_angle_threshold >= 0
    /\ c.head_drop_threshold >= 0
    /\ c.center_shift_threshold >= 0
    /\ c.mild_angle_range[1] <= c.mild_angle_range[2]
    /\ c.mild_angle_range[1] <= c.severe_angle_min
    /\ c.consecutive_frames > 0
    /\ c.cooldown_seconds >= 0

SessionArgs == {c \in ConstructorArgs : ValidConfig(c)}

SessionFrameHeight == 480

SessionMaps == {Restrict(p, js) : p \in Poses, js \in {Joints, Joints \ {"left_hip"}}}

InitSession ==
    /\ now = 0
    /\ \E c \in SessionArgs : Construct(c)
    /\ AppStart(FALSE)
    /\ peer = NoPeer

NextSession ==
    \/ \E lm \in SessionMaps, d1 \in Drifts : \E d2 \in 0..(MaxDrift - d1) :
           frames < MaxSessionFrames /\ Detect(lm, SessionFrameHeight, d1, d2) /\ UNCHANGED app
    \/ Tick

SpecSession == InitSession /\ [][NextSession]_vars

----------------------------------------------------------------------------
(* AngleTracker on its own, built with a small history_size *)

TorsoSamples == {None, Some(0), Some(90)}
CenterSamples == {None, Some(<<150, 233>>), Some(<<400, 420>>)}
HeadSamples == {None, Some(48), Some(420)}

InitTracker ==
    /\ now = 0
    /\ AppStart(FALSE)
    /\ peer = NoPeer
    /\ \E c \in SessionArgs, n \in 1..MaxHistory :
          /\ cfg = c
          /\ history_size = n
          /\ torso_history = <<>>
          /\ center_history = <<>>
          /\ head_height_history = <<>>
          /\ consecutive_detections = 0
          /\ last_alert_time = 0
          /\ baseline_head_height = None
          /\ baseline_center = None
          /\ is_calibrated = FALSE
          /\ result = NoResult
          /\ frames = 0
          /\ seen = {}
          /\ alarm_time = None
          /\ prev_alarm_time = None
          /\ run = FreshRun("init")
          /\ arrivals = [torso |-> <<>>, center |-> <<>>, head |-> <<>>]

\* AngleTracker.update
Update(torso_angle, center, head_height) ==
    /\ frames' = frames + 1
    /\ \E t \in {TrackerUpdate([torso_angle |-> torso_angle, body_center |-> center,
                                head_height |-> head_height])} :
          /\ torso_history' = t.torso
          /\ center_history' = t.center
          /\ head_height_history' = t.head
    /\ arrivals' = [torso |-> Arrive(arrivals.torso, torso_angle),
                    center |-> Arrive(arrivals.center, center),
                    head |-> Arrive(arrivals.head, head_height)]
    /\ answer' = NoAnswer
    /\ peer' = PeerAfter
    /\ UNCHANGED <<cfg, history_size, alert_state, baseline, now, result, seen,
                   alarm_time, prev_alarm_time, run, app>>

\* AngleTracker.reset
Reset ==
    /\ torso_history' = <<>>
    /\ center_history' = <<>>
    /\ head_height_history' = <<>>
    /\ arrivals' = [torso |-> <<>>, center |-> <<>>, head |-> <<>>]
    /\ peer' = PeerAfter
    /\ UNCHANGED <<cfg, history_size, alert_state, baseline, now, result, frames, seen,
                   alarm_time, prev_alarm_time, run, app, answer>>

NextTracker ==
    \/ \E t \in TorsoSamples, c \in CenterSamples, h \in HeadSamples :
           frames < MaxUpdates /\ Update(t, c, h)
    \/ Reset

SpecTracker == InitTracker /\ [][NextTracker]_vars

----------------------------------------------------------------------------
(* ElderlyFallDetectionSystem.start: the main loop around one engine.      *)
(* One iteration reads a frame (pc = "frame") and then handles a key       *)
(* (pc = "key").                                                           *)

\* everything but the main loop's own state
engine == <<cfg, tracker, alert_state, baseline, now, result, frames, seen, alarm_time, prev_alarm_time,
            run, arrivals, answer, peer>>

\* the detection section of config.json is passed on unchecked
AppArgs == ConstructorArgs

\* get_all_landmarks reports every joint of a detected person
AppMaps == {Restrict(p, Joints) : p \in Poses}

\* variant: the notifier is called for every frame on which a rule triggered
ShouldNotify_triggered(res) == Len(res.trigger_reasons) > 0

\* "如果偵測到跌倒，發送警報"
ShouldNotify(res) == res.is_fall_detected

\* _send_alert: severity, angle of send_flex_message; nothing without a notifier
SendAlert(res) ==
    IF ~notifier THEN None
    ELSE Some([severity |-> IF res.severity = SEVERE THEN "severe" ELSE "mild",
               angle |-> res.torso_angle])

\* the default DetectionResult of a frame without a person
NoPersonResult(t) == [NoResult EXCEPT !.status = "no_person", !.timestamp = t]

\* an iteration whose frame shows a person: detect, then the alert
FrameWithPerson(lm, d1, d2) ==
    /\ pc = "frame"
    /\ Detect(lm, SessionFrameHeight, d1, d2)
    /\ detected' = TRUE
    /\ frame_landmarks' = lm
    /\ notifier' = notifier
    /\ calls' = calls
    /\ IF result'.status = "ok"
       THEN /\ pc' = "key"
            /\ notified' = IF ShouldNotify(result') THEN SendAlert(result') ELSE None
       ELSE /\ pc' = "crashed"
            /\ notified' = None

\* variant: a frame without a person counts as a frame without a trigger
FrameWithoutPerson_decays ==
    /\ pc = "frame"
    /\ frames' = frames + 1
    /\ detected' = FALSE
    /\ result' = NoPersonResult(now)
    /\ notified' = None
    /\ pc' = "key"
    /\ consecutive_detections' = Debounce(consecutive_detections, 0)
    /\ UNCHANGED <<cfg, tracker, last_alert_time, baseline, now, seen, alarm_time,
                   prev_alarm_time, run, arrivals, frame_landmarks, notifier, calls,
                   answer, peer>>

\* an iteration whose frame shows nobody: detect is not called
FrameWithoutPerson ==
    /\ pc = "frame"
    /\ frames' = frames + 1
    /\ detected' = FALSE
    /\ result' = NoPersonResult(now)
    /\ notified' = None
    /\ pc' = "key"
    /\ UNCHANGED <<cfg, tracker, alert_state, baseline, now, seen, alarm_time, prev_alarm_time, run,
                   arrivals, frame_landmarks, notifier, calls, answer, peer>>

Keys == {"none", "c", "r", "s", "q"}

\* cv2.waitKey and the key handlers
HandleKey(key) ==
    /\ pc = "key"
    /\ pc' = IF key = "q" THEN "stopped" ELSE "frame"
    /\ UNCHANGED <<detected, frame_landmarks, notifier, notified, calls>>
    /\ LET center == calculate_body_center(frame_landmarks)
           head_height == calculate_head_height_ratio(frame_landmarks, SessionFrameHeight)
       IN  CASE key = "c" /\ detected /\ center # None /\ head_height # None
                     /\ Val(head_height) # 0
                  -> Calibrate(Val(head_height), Val(center))
             [] key = "r" -> ForceResetCooldown
             [] OTHER -> UNCHANGED engine

InitApp ==
    /\ now = 0
    /\ \E c \in AppArgs : Construct(c)
    /\ \E n \in BOOLEAN : AppStart(n)
    /\ peer = NoPeer

NextApp ==
    \/ \E lm \in AppMaps, d1 \in Drifts : \E d2 \in 0..(MaxDrift - d1) :
           frames < MaxAppFrames /\ FrameWithPerson(lm, d1, d2)
    \/ frames < MaxAppFrames /\ FrameWithoutPerson
    \/ \E key \in Keys : HandleKey(key)
    \/ Tick

SpecApp == InitApp /\ [][NextApp]_vars

----------------------------------------------------------------------------
(* The center buffer of the engine's tracker and its windowed maximum *)

\* (0,0), (200,0), (120,160): two steps of 200 and 178.9 with a net displacement of 200
WindowCenters == {<<0, 0>>, <<200, 0>>, <<200, 150>>, <<120, 160>>}

\* the frames argument of get_max_center_shift
WindowArgs == {1, ShiftWindow}

InitWindow ==
    /\ now = 0
    /\ \E c \in SessionArgs : Construct(c)
    /\ AppStart(FALSE)
    /\ peer = NoPeer

\* AngleTracker.get_max_center_shift(frames=n)
AskMaxCenterShift(n) ==
    /\ answer' = [op |-> "get_max_center_shift", arg |-> n,
                  value |-> get_max_center_shift(center_history, n)]
    /\ UNCHANGED <<cfg, tracker, alert_state, baseline, now, result, frames, seen,
                   alarm_time, prev_alarm_time, run, arrivals, app, peer>>

NextWindow ==
    \/ \E c \in WindowCenters : frames < MaxCenters /\ Update(None, Some(c), None)
    \/ \E n \in WindowArgs : AskMaxCenterShift(n)

SpecWindow == InitWindow /\ [][NextWindow]_vars

----------------------------------------------------------------------------
(* The rules on single frames: more poses and thresholds, a fixed clock *)

\* leaning: shoulder midpoint (300,100), hip midpoint (150,300), torso 36.87 degrees
LeanPose ==
    [StandPose EXCEPT !["left_shoulder"] = <<250, 100>>, !["right_shoulder"] = <<350, 100>>]

\* scenario B of the specification
ScenarioBPose ==
    [StandPose EXCEPT !["right_shoulder"] = <<200, 130>>, !["right_hip"] = <<200, 230>>]

RulePoses == {StandPose, LeanPose, ScenarioBPose, FallenPose}

\* nose heights in pixels: scenario C (100, 400), the two boundaries of the
\* head-drop rule (200, 248), and a nose reported below the frame (500)
NoseYs == {100, 200, 248, 400, 500}

WithNose(pose, y) == [pose EXCEPT !["nose"] = <<pose["nose"][1], y>>]

RuleMaps ==
    {Restrict(WithNose(p, y), js) :
        p \in RulePoses, y \in NoseYs, js \in {Joints, Joints \ {"left_hip"}}}
    \cup {Restrict(p, Joints \ {"nose"}) : p \in RulePoses}

\* torso_angle_threshold and mild_angle_range are separate arguments
RuleArgs ==
    [torso_angle_threshold : {35, 40},
     head_drop_threshold : HeadDropArgs,
     center_shift_threshold : CenterShiftArgs,
     consecutive_frames : {2},
     cooldown_seconds : {0},
     mild_angle_range : {<<35, 50>>, <<40, 50>>},
     severe_angle_min : SevereMinArgs]

InitRules ==
    /\ now = 0
    /\ \E c \in RuleArgs : Construct(c)
    /\ AppStart(FALSE)
    /\ peer = NoPeer

\* detect, remembering the joint map it was handed
DetectMap(lm) ==
    /\ Detect(lm, SessionFrameHeight, 0, 0)
    /\ frame_landmarks' = lm
    /\ UNCHANGED <<pc, detected, notifier, notified, calls>>

NextRules ==
    \/ \E lm \in RuleMaps : frames < MaxRuleFrames /\ DetectMap(lm)
    \/ \E h \in CalibrateHeads, c \in CalibrateCenters : Calibrate(h, c) /\ UNCHANGED app
    \/ ResetCalibration

SpecRules == InitRules /\ [][NextRules]_vars

----------------------------------------------------------------------------
(* Two FallDetector instances.  The variables hold the instance that is    *)
(* being called; peer holds the other one.                                 *)

\* a FallDetector as __init__ leaves it, with the histories kept about it
PeerBuilt(name, c) ==
    [name |-> name,
     cfg |-> c,
     history_size |-> EngineHistorySize,
     torso_history |-> <<>>,
     center_history |-> <<>>,
     head_height_history |-> <<>>,
     consecutive_detections |-> 0,
     last_alert_time |-> 0,
     baseline_head_height |-> None,
     baseline_center |-> None,
     is_calibrated |-> FALSE,
     alarm_time |-> None,
     prev_alarm_time |-> None,
     run |-> FreshRun("init"),
     arrivals |-> [torso |-> <<>>, center |-> <<>>, head |-> <<>>]]

InstanceArgs ==
    [torso_angle_threshold : TorsoThresholdArgs,
     head_drop_threshold : HeadDropArgs,
     center_shift_threshold : CenterShiftArgs,
     consecutive_frames : {1, 2},
     cooldown_seconds : {0},
     mild_angle_range : MildRangeArgs,
     severe_angle_min : SevereMinArgs]

InitInstances ==
    /\ now = 0
    /\ \E c \in InstanceArgs : Construct(c)
    /\ AppStart(FALSE)
    /\ \E c \in InstanceArgs : peer = PeerBuilt("B", c)

\* the caller turns to the other instance
SwitchInstance ==
    /\ peer.name # "none"
    /\ peer' = [name |-> IF peer.name = "B" THEN "A" ELSE "B",
                cfg |-> cfg,
                history_size |-> history_size,
                torso_history |-> torso_history,
                center_history |-> center_history,
                head_height_history |-> head_height_history,
                consecutive_detections |-> consecutive_detections,
                last_alert_time |-> last_alert_time,
                baseline_head_height |-> baseline_head_height,
                baseline_center |-> baseline_center,
                is_calibrated |-> is_calibrated,
                alarm_time |-> alarm_time,
                prev_alarm_time |-> prev_alarm_time,
                run |-> run,
                arrivals |-> arrivals]
    /\ cfg' = peer.cfg
    /\ history_size' = peer.history_size
    /\ torso_history' = peer.torso_history
    /\ center_history' = peer.center_history
    /\ head_height_history' = peer.head_height_history
    /\ consecutive_detections' = peer.consecutive_detections
    /\ last_alert_time' = peer.last_alert_time
    /\ baseline_head_height' = peer.baseline_head_height
    /\ baseline_center' = peer.baseline_center
    /\ is_calibrated' = peer.is_calibrated
    /\ alarm_time' = peer.alarm_time
    /\ prev_alarm_time' = peer.prev_alarm_time
    /\ run' = peer.run
    /\ arrivals' = peer.arrivals
    /\ UNCHANGED <<now, result, frames, seen, app, answer>>

NextInstances ==
    \/ \E lm \in AppMaps, d1 \in Drifts :
           frames < MaxInstanceFrames /\ Detect(lm, SessionFrameHeight, d1, 0) /\ UNCHANGED app
    \/ \E h \in CalibrateHeads, c \in CalibrateCenters : Calibrate(h, c) /\ UNCHANGED app
    \/ ResetCalibration
    \/ ForceResetCooldown /\ UNCHANGED app
    \/ SwitchInstance

SpecInstances == InitInstances /\ [][NextInstances]_vars

----------------------------------------------------------------------------
(* Frames of a person lying on the floor that keep arriving while the      *)
(* clock advances.  The main loop reads a frame in every iteration and an  *)
(* iteration takes time: here at most one more frame than clock values.    *)

ExpiryArgs ==
    [torso_angle_threshold : TorsoThresholdArgs,
     head_drop_threshold : HeadDropArgs,
     center_shift_threshold : CenterShiftArgs,
     consecutive_frames : {1, 2},
     cooldown_seconds : {0, 1, 2},
     mild_angle_range : MildRangeArgs,
     severe_angle_min : SevereMinArgs]

\* the lying person, with and without a visible nose: torso at 90 degrees
LyingMaps == {Restrict(FallenPose, Joints), Restrict(FallenPose, Joints \ {"nose"})}

InitExpiry ==
    /\ now = 0
    /\ \E c \in ExpiryArgs : Construct(c)
    /\ AppStart(FALSE)
    /\ peer = NoPeer

\* the next frame can be read
LyingFrameEnabled == frames <= now

LyingFrame ==
    /\ LyingFrameEnabled
    /\ \E lm \in LyingMaps :
           Detect(lm, SessionFrameHeight, 0, 0) /\ frame_landmarks' = lm
    /\ UNCHANGED <<pc, detected, notifier, notified, calls>>

NextExpiry ==
    \/ LyingFrame
    \/ Tick

\* the loop keeps reading frames: weak fairness of LyingFrame, written with its
\* enabling condition
LyingFramesKeepArriving == []<>(~LyingFrameEnabled) \/ []<><<LyingFrame>>_vars

SpecExpiry ==
    InitExpiry /\ [][NextExpiry]_vars /\ WF_vars(Tick) /\ LyingFramesKeepArriving

----------------------------------------------------------------------------
(* Two engines fed the same frames.  Engine A gets a frame, then engine B  *)
(* gets the same frame at the same clock value; the clock advances between *)
(* frames.  frames counts the detect calls on both: when it is even and A  *)
(* is the instance being called, both have seen the same frames.           *)

TwinArgs ==
    [torso_angle_threshold : TorsoThresholdArgs,
     head_drop_threshold : HeadDropArgs,
     center_shift_threshold : CenterShiftArgs,
     consecutive_frames : {1, 2},
     cooldown_seconds : {1, 2},
     mild_angle_range : MildRangeArgs,
     severe_angle_min : SevereMinArgs]

\* nose heights 48 (standing), 200 and 400 (head lower), and the lying pose
TwinMaps ==
    {Restrict(StandPose, Joints), Restrict(WithNose(StandPose, 200), Joints),
     Restrict(WithNose(StandPose, 400), Joints), Restrict(FallenPose, Joints)}

\* the other engine: a FallDetector as __init__ leaves it, with the result of
\* its last detect call
TwinBuilt(name, c) ==
    [name |-> name,
     cfg |-> c,
     history_size |-> EngineHistorySize,
     torso_history |-> <<>>,
     center_history |-> <<>>,
     head_height_history |-> <<>>,
     consecutive_detections |-> 0,
     last_alert_time |-> 0,
     baseline_head_height |-> None,
     baseline_center |-> None,
     is_calibrated |-> FALSE,
     alarm_time |-> None,
     prev_alarm_time |-> None,
     run |-> FreshRun("init"),
     arrivals |-> [torso |-> <<>>, center |-> <<>>, head |-> <<>>],
     result |-> NoResult]

\* both engines have seen the same frames, A is the instance being called
TwinSync == frames % 2 = 0 /\ peer.name = "B"

\* detect on the instance being called: A gets any frame, B the frame A got
TwinDetect(lm) ==
    /\ \/ TwinSync /\ frames < 2 * MaxTwinFrames
       \/ frames % 2 = 1 /\ peer.name = "A" /\ lm = frame_landmarks
    /\ Detect(lm, SessionFrameHeight, 0, 0)
    /\ frame_landmarks' = lm
    /\ UNCHANGED <<pc, detected, notifier, notified, calls>>

\* the caller turns to the other engine, once per frame and engine
TwinSwitch ==
    /\ \/ frames % 2 = 1 /\ peer.name = "B"
       \/ frames % 2 = 0 /\ peer.name = "A"
    /\ peer' = [name |-> IF peer.name = "B" THEN "A" ELSE "B",
                cfg |-> cfg,
                history_size |-> history_size,
                torso_history |-> torso_history,
                center_history |-> center_history,
                head_height_history |-> head_height_history,
                consecutive_detections |-> consecutive_detections,
                last_alert_time |-> last_alert_time,
                baseline_head_height |-> baseline_head_height,
                baseline_center |-> baseline_center,
                is_calibrated |-> is_calibrated,
                alarm_time |-> alarm_time,
                prev_alarm_time |-> prev_alarm_time,
                run |-> run,
                arrivals |-> arrivals,
                result |-> result]
    /\ cfg' = peer.cfg
    /\ history_size' = peer.history_size
    /\ torso_history' = peer.torso_history
    /\ center_history' = peer.center_history
    /\ head_height_history' = peer.head_height_history
    /\ consecutive_detections' = peer.consecutive_detections
    /\ last_alert_time' = peer.last_alert_time
    /\ baseline_head_height' = peer.baseline_head_height
    /\ baseline_center' = peer.baseline_center
    /\ is_calibrated' = peer.is_calibrated
    /\ alarm_time' = peer.alarm_time
    /\ prev_alarm_time' = peer.prev_alarm_time
    /\ run' = peer.run
    /\ arrivals' = peer.arrivals
    /\ result' = peer.result
    /\ UNCHANGED <<now, frames, seen, app, answer>>

\* time passes between two frames
TwinTick == TwinSync /\ Tick

NextTwin ==
    \/ \E lm \in TwinMaps : TwinDetect(lm)
    \/ TwinSwitch
    \/ TwinTick

\* the two engines differ in last_alert_time only: each alerted at some time up
\* to now, and has since seen its counter decay to zero and been through
\* reset_calibration
InitCooldownTwin ==
    /\ \E c \in TwinArgs, a \in 0..MaxTime, b \in 0..MaxTime :
          /\ a # b
          /\ now = Max(a, b)
          /\ cfg = c
          /\ history_size = EngineHistorySize
          /\ torso_history = <<>>
          /\ center_history = <<>>
          /\ head_height_history = <<>>
          /\ consecutive_detections = 0
          /\ last_alert_time = a
          /\ baseline_head_height = None
          /\ baseline_center = None
          /\ is_calibrated = FALSE
          /\ result = NoResult
          /\ frames = 0
          /\ seen = {}
          /\ alarm_time = IF a > 0 THEN Some(a) ELSE None
          /\ prev_alarm_time = None
          /\ run = BrokenRun(FreshRun("init"))
          /\ arrivals = [torso |-> <<>>, center |-> <<>>, head |-> <<>>]
          /\ peer = [TwinBuilt("B", c) EXCEPT
                        !.last_alert_time = b,
                        !.alarm_time = IF b > 0 THEN Some(b) ELSE None,
                        !.run = BrokenRun(FreshRun("init"))]
    /\ AppStart(FALSE)

SpecCooldownTwin == InitCooldownTwin /\ [][NextTwin]_vars

\* engine A was calibrated (key 'c' on a standing frame), engine B never was
InitCalibrationTwin ==
    /\ now = 0
    /\ \E c \in TwinArgs, h \in CalibrateHeads, ctr \in CalibrateCenters :
          /\ cfg = c
          /\ history_size = EngineHistorySize
          /\ torso_history = <<>>
          /\ center_history = <<>>
          /\ head_height_history = <<>>
          /\ consecutive_detections = 0
          /\ last_alert_time = 0
          /\ baseline_head_height = Some(h)
          /\ baseline_center = Some(ctr)
          /\ is_calibrated = TRUE
          /\ result = NoResult
          /\ frames = 0
          /\ seen = {}
          /\ alarm_time = None
          /\ prev_alarm_time = None
          /\ run = FreshRun("init")
          /\ arrivals = [torso |-> <<>>, center |-> <<>>, head |-> <<>>]
          /\ peer = TwinBuilt("B", c)
    /\ AppStart(FALSE)

SpecCalibrationTwin == InitCalibrationTwin /\ [][NextTwin]_vars

----------------------------------------------------------------------------
(* AngleTracker: updates with absent values, and the query operations *)

RECURSIVE SeqSum(_)
SeqSum(s) == IF s = <<>> THEN 0 ELSE s[1] + SeqSum(Tail(s))

\* sum(torso_history) / len(torso_history), the quotient kept as its two terms
get_average_torso_angle(torsos) ==
    IF torsos = <<>> THEN None
    ELSE Some([sum |-> SeqSum(torsos), len |-> Len(torsos)])

get_torso_angle_change_rate(torsos) ==
    IF Len(torsos) < 2 THEN None
    ELSE Some(PyIndex(torsos, -1) - PyIndex(torsos, -2))

\* the arguments of one update call: each signal present or absent, and one
\* call with other values
QueryUpdates ==
    {<<t, c, h>> : t \in {None, Some(90)}, c \in {None, Some(<<150, 233>>)},
                   h \in {None, Some(48)}}
        \cup {<<Some(0), Some(<<400, 420>>), Some(420)>>}

QueryOps == {"get_average_torso_angle", "get_torso_angle_change_rate",
             "get_center_shift", "get_head_height_change", "get_max_center_shift"}

\* what a query returns; none of them assigns to a buffer
QueryValue(op) ==
    CASE op = "get_average_torso_angle" -> get_average_torso_angle(torso_history)
      [] op = "get_torso_angle_change_rate" -> get_torso_angle_change_rate(torso_history)
      [] op = "get_center_shift" -> get_center_shift(center_history)
      [] op = "get_head_height_change" -> get_head_height_change(head_height_history)
      [] op = "get_max_center_shift" -> get_max_center_shift(center_history, ShiftWindow)

\* one call of a query operation of AngleTracker
Ask(op) ==
    /\ answer' = [op |-> op,
                  arg |-> IF op = "get_max_center_shift" THEN ShiftWindow ELSE <<>>,
                  value |-> QueryValue(op)]
    /\ UNCHANGED <<cfg, tracker, alert_state, baseline, now, result, frames, seen,
                   alarm_time, prev_alarm_time, run, arrivals, app, peer>>

NextQueries ==
    \/ \E u \in QueryUpdates : frames < MaxUpdates /\ Update(u[1], u[2], u[3])
    \/ \E op \in QueryOps : Ask(op)

SpecQueries == InitTracker /\ [][NextQueries]_vars

----------------------------------------------------------------------------
(* calibrate called with any arguments, between frames *)

\* head heights (0 is the top edge of the frame) and centers handed to calibrate
CalibrateArgHeads == {0, 48, 248}
CalibrateArgCenters == {<<150, 233>>, <<400, 420>>}

CalibrateMaps == {Restrict(StandPose, Joints), Restrict(FallenPose, Joints)}

\* the caller fixes the arguments of its next calibrate call (pc = "calibrate")
PrepareCalibrate(h, c) ==
    /\ pc = "frame"
    /\ pc' = "calibrate"
    /\ answer' = [op |-> "calibrate", arg |-> <<h, c>>, value |-> <<>>]
    /\ UNCHANGED <<cfg, tracker, alert_state, baseline, now, result, frames, seen,
                   alarm_time, prev_alarm_time, run, arrivals, peer,
                   detected, frame_landmarks, notifier, notified, calls>>

\* FallDetector.calibrate with the arguments fixed before; the caller goes on
CalibrateCall ==
    /\ pc = "calibrate"
    /\ pc' = "frame"
    /\ Calibrate(answer.arg[1], answer.arg[2])
    /\ UNCHANGED <<detected, frame_landmarks, notifier, notified, calls>>

NextCalibrate ==
    \/ \E lm \in CalibrateMaps : frames < MaxRuleFrames /\ DetectMap(lm)
    \/ \E h \in CalibrateArgHeads, c \in CalibrateArgCenters : PrepareCalibrate(h, c)
    \/ CalibrateCall
    \/ ResetCalibration

SpecCalibrate == InitSession /\ [][NextCalibrate]_vars

----------------------------------------------------------------------------
(* calculate_torso_angle on joint maps with small integer coordinates *)

\* largest pixel coordinate of a joint
MaxCoord == 2

TorsoPoints == {<<x, y>> : x \in 0..MaxCoord, y \in 0..1}

\* the four torso joints anywhere on the grid, the hips on one point
TorsoInputs ==
    {[j \in TorsoJoints |->
         CASE j = "left_shoulder" -> ls
           [] j = "right_shoulder" -> rs
           [] OTHER -> hip] :
        ls \in TorsoPoints, rs \in TorsoPoints, hip \in TorsoPoints}
    \cup {Restrict(StandPose, Joints \ {"left_hip"})}

\* one call of calculate_torso_angle(landmarks)
AskTorsoAngle(lm) ==
    /\ frame_landmarks' = lm
    /\ answer' = [op |-> "calculate_torso_angle", arg |-> <<>>,
                  value |-> calculate_torso_angle(lm)]
    /\ UNCHANGED <<cfg, tracker, alert_state, baseline, now, result, frames, seen,
                   alarm_time, prev_alarm_time, run, arrivals, peer,
                   pc, detected, notifier, notified, calls>>

NextTorso == \E lm \in TorsoInputs : AskTorsoAngle(lm)

SpecTorso == InitSession /\ [][NextTorso]_vars

----------------------------------------------------------------------------
(* Two threads calling detect on one instance. A call is a sequence of     *)
(* steps, each reading or writing the instance once; the interpreter may   *)
(* switch threads between any two of them. With external serialization a   *)
(* call starts only when no other call is in flight.                       *)

Threads == {1, 2}

ThreadMaps == {Restrict(StandPose, Joints), Restrict(FallenPose, Joints)}

\* a thread that has not called yet
IdleCall ==
    [pc |-> "idle", f |-> <<>>, reasons |-> <<>>, severity |-> NONE, cd_read |-> 0,
     should_alert |-> FALSE, checked |-> None, saw |-> <<>>, result |-> NoResult]

NoOrder == [torso |-> <<>>, center |-> <<>>, head |-> <<>>]

InitThreads ==
    /\ now = 0
    /\ \E c \in TwinArgs : Construct(c)
    /\ pc = "frame"
    /\ detected = FALSE
    /\ frame_landmarks = <<>>
    /\ notifier = FALSE
    /\ notified = None
    /\ answer = NoAnswer
    /\ peer = NoPeer
    /\ \E s \in BOOLEAN :
          calls = [serialized |-> s, order |-> NoOrder, t |-> [th \in Threads |-> IdleCall]]

\* variant: the caller's lock is not taken
MayStart_unlocked(th) == calls.t[th].pc = "idle"

\* a call may begin: under external serialization only between other calls
MayStart(th) ==
    /\ calls.t[th].pc = "idle"
    /\ calls.serialized => \A o \in Threads \ {th} : calls.t[o].pc \in {"idle", "done"}

\* the thread's locals after a step
Moved(th, fields) == [calls EXCEPT !.t[th] = fields @@ calls.t[th]]

\* what a step of a call leaves alone besides the fields it names
CallFrame ==
    UNCHANGED <<cfg, history_size, baseline, seen, alarm_time, prev_alarm_time, run,
                pc, detected, frame_landmarks, notifier, notified, answer, peer>>

\* detect is entered: the three features are computed from the arguments
CallStart(th, lm) ==
    /\ MayStart(th)
    /\ calls' = Moved(th, [pc |-> "update_torso", f |-> Features(lm, SessionFrameHeight)])
    /\ CallFrame
    /\ UNCHANGED <<torso_history, center_history, head_height_history, alert_state,
                   now, result, frames, arrivals>>

\* AngleTracker.update, the block of one signal
CallUpdate(th, at, signal, next) ==
    /\ calls.t[th].pc = at
    /\ LET value == calls.t[th].f[signal]
           name == CASE signal = "torso_angle" -> "torso"
                     [] signal = "body_center" -> "center"
                     [] signal = "head_height" -> "head"
       IN  /\ torso_history' = IF name = "torso"
                               THEN UpdateBuffer(torso_history, value, history_size)
                               ELSE torso_history
           /\ center_history' = IF name = "center"
                                THEN UpdateBuffer(center_history, value, history_size)
                                ELSE center_history
           /\ head_height_history' = IF name = "head"
                                     THEN UpdateBuffer(head_height_history, value, history_size)
                                     ELSE head_height_history
           /\ arrivals' = [arrivals EXCEPT ![name] = Arrive(@, value)]
           /\ calls' = [Moved(th, [pc |-> next])
                            EXCEPT !.order[name] = IF value # None THEN Append(@, th) ELSE @]
    /\ CallFrame
    /\ UNCHANGED <<alert_state, now, result, frames>>

\* the three rules, on the buffers as they are now
CallRules(th) ==
    /\ calls.t[th].pc = "rules"
    /\ \E r \in {Rules(calls.t[th].f, [torso |-> torso_history, center |-> center_history,
                                       head |-> head_height_history])} :
          calls' = Moved(th, [pc |-> "read_count", reasons |-> r.trigger_reasons,
                              severity |-> r.max_severity, saw |-> calls.order])
    /\ CallFrame
    /\ UNCHANGED <<torso_history, center_history, head_height_history, alert_state,
                   now, result, frames, arrivals>>

\* self.consecutive_detections += 1 (or max(0, ... - 1)): the read
CallReadCount(th) ==
    /\ calls.t[th].pc = "read_count"
    /\ calls' = Moved(th, [pc |-> "write_count", cd_read |-> consecutive_detections])
    /\ CallFrame
    /\ UNCHANGED <<torso_history, center_history, head_height_history, alert_state,
                   now, result, frames, arrivals>>

\* ... and the write
CallWriteCount(th) ==
    /\ calls.t[th].pc = "write_count"
    /\ consecutive_detections' = Debounce(calls.t[th].cd_read, Len(calls.t[th].reasons))
    /\ calls' = Moved(th, [pc |-> "decide"])
    /\ CallFrame
    /\ UNCHANGED <<torso_history, center_history, head_height_history, last_alert_time,
                   now, result, frames, arrivals>>

\* should_alert: cross-validation, then the cooldown check on the clock
CallDecide(th) ==
    /\ calls.t[th].pc = "decide"
    /\ \E should_alert \in
            {/\ Qualifies(Len(calls.t[th].reasons), consecutive_detections,
                          cfg.consecutive_frames)
             /\ ~is_in_cooldown(now, last_alert_time, cfg.cooldown_seconds)} :
          calls' = Moved(th, [pc |-> IF should_alert THEN "stamp" ELSE "return",
                              should_alert |-> should_alert,
                              checked |-> Some(now)])
    /\ CallFrame
    /\ UNCHANGED <<torso_history, center_history, head_height_history, alert_state,
                   now, result, frames, arrivals>>

\* self.last_alert_time = time.time()
CallStamp(th) ==
    /\ calls.t[th].pc = "stamp"
    /\ last_alert_time' = now
    /\ calls' = Moved(th, [pc |-> "return"])
    /\ CallFrame
    /\ UNCHANGED <<torso_history, center_history, head_height_history,
                   consecutive_detections, now, result, frames, arrivals>>

\* the DetectionResult is built and returned
CallReturn(th) ==
    /\ calls.t[th].pc = "return"
    /\ \E res \in {[status |-> "ok",
                    is_fall_detected |-> calls.t[th].should_alert,
                    severity |-> calls.t[th].severity,
                    torso_angle |-> calls.t[th].f.torso_angle,
                    head_height |-> calls.t[th].f.head_height,
                    center_shift |-> get_center_shift(center_history),
                    trigger_reasons |-> calls.t[th].reasons,
                    timestamp |-> now,
                    confidence |-> calculate_confidence(cfg, consecutive_detections,
                                                        Len(calls.t[th].reasons),
                                                        calls.t[th].severity)]} :
          /\ calls' = Moved(th, [pc |-> "done", result |-> res])
          /\ result' = res
    /\ frames' = frames + 1
    /\ CallFrame
    /\ UNCHANGED <<torso_history, center_history, head_height_history, alert_state,
                   now, arrivals>>

NextThreads ==
    \/ \E th \in Threads, lm \in ThreadMaps : CallStart(th, lm)
    \/ \E th \in Threads : CallUpdate(th, "update_torso", "torso_angle", "update_center")
    \/ \E th \in Threads : CallUpdate(th, "update_center", "body_center", "update_head")
    \/ \E th \in Threads : CallUpdate(th, "update_head", "head_height", "rules")
    \/ \E th \in Threads : CallRules(th)
    \/ \E th \in Threads : CallReadCount(th)
    \/ \E th \in Threads : CallWriteCount(th)
    \/ \E th \in Threads : CallDecide(th)
    \/ \E th \in Threads : CallStamp(th)
    \/ \E th \in Threads : CallReturn(th)
    \/ Tick

SpecThreads == InitThreads /\ [][NextThreads]_vars

----------------------------------------------------------------------------
(* A subject standing still, with one frame in which the pose source       *)
(* reports the torso joints somewhere else; consecutive_frames = 5         *)

\* frames of a session of SpecNoise
MaxNoiseFrames == 7

\* consecutive_frames: int = 5
DefaultConsecutiveFrames == 5

\* the default debounce of FallDetector.__init__, and a cooldown that the clock
\* has already passed when the session starts
NoiseArgs ==
    [torso_angle_threshold : TorsoThresholdArgs,
     head_drop_threshold : HeadDropArgs,
     center_shift_threshold : CenterShiftArgs,
     consecutive_frames : {DefaultConsecutiveFrames},
     cooldown_seconds : 0..MaxTime,
     mild_angle_range : MildRangeArgs,
     severe_angle_min : SevereMinArgs]

\* where the torso joints are reported in the disturbed frame
NoiseOffsets == {<<200, 0>>, <<0, 160>>, <<120, 120>>, <<300, 0>>}

\* the four torso joints moved together, the nose where it was
Displaced(pose, by) ==
    [j \in DOMAIN pose |->
        IF j \in TorsoJoints THEN <<pose[j][1] + by[1], pose[j][2] + by[2]>> ELSE pose[j]]

CalmMap == Restrict(StandPose, Joints)

CalmCenter == Val(calculate_body_center(CalmMap))

\* a frame of the session so far was disturbed
Disturbed == \E i \in DOMAIN arrivals.center : arrivals.center[i] # CalmCenter

InitNoise ==
    /\ now = MaxTime
    /\ \E c \in NoiseArgs : Construct(c)
    /\ AppStart(FALSE)
    /\ peer = NoPeer

\* a frame of the subject standing still
CalmFrame ==
    /\ frames < MaxNoiseFrames
    /\ Detect(CalmMap, SessionFrameHeight, 0, 0)
    /\ UNCHANGED app

\* the one disturbed frame, after at least one calm frame
NoisyFrame(by) ==
    /\ frames < MaxNoiseFrames
    /\ frames >= 1
    /\ ~Disturbed
    /\ Detect(Displaced(CalmMap, by), SessionFrameHeight, 0, 0)
    /\ UNCHANGED app

NextNoise ==
    \/ CalmFrame
    \/ \E by \in NoiseOffsets : NoisyFrame(by)

SpecNoise == InitNoise /\ [][NextNoise]_vars

----------------------------------------------------------------------------
(* An uncalibrated engine, and frames in which the nose is not reported *)

\* frames of a session of SpecNose
MaxNoseFrames == 3

\* standing with the nose at 48, at 400 and not reported, and lying without a nose
NoseMaps ==
    {Restrict(StandPose, Joints), Restrict(WithNose(StandPose, 400), Joints),
     Restrict(StandPose, Joints \ {"nose"}), Restrict(FallenPose, Joints \ {"nose"})}

NextNose == \E lm \in NoseMaps : frames < MaxNoseFrames /\ DetectMap(lm)

SpecNose == InitSession /\ [][NextNose]_vars

----------------------------------------------------------------------------
(* Properties *)

\* a step that is one detect call
DetectStep == frames' = frames + 1

\* the detect call of this step returned a DetectionResult
Returned == DetectStep /\ result'.status = "ok"

\* C1: with a non-decreasing clock and no force_reset_cooldown in between, after
\* an alarm returned at time T every evaluation made at a time in
\* [T, T + cooldown_seconds) returns is_fall_detected = false.
CooldownSafety ==
    [][(/\ Returned
        /\ alarm_time # None
        /\ now >= Val(alarm_time)
        /\ now < Val(alarm_time) + cfg.cooldown_seconds)
       => ~result'.is_fall_detected]_vars

\* a frame that qualified (its rules triggered) was suppressed inside the cooldown
\* interval of an earlier alarm
CooldownSafetyWitness ==
    /\ ValidConfig(cfg)
    /\ alarm_time # None
    /\ result.status = "ok"
    /\ ~result.is_fall_detected
    /\ Len(result.trigger_reasons) >= 1
    /\ consecutive_detections >= cfg.consecutive_frames
    /\ result.timestamp < Val(alarm_time) + cfg.cooldown_seconds

\* C2: on a fresh engine, frames that each trigger exactly one and the same rule
\* return is_fall_detected = false on frames 1 .. threshold-1, and the frame
\* number consecutive_frames returns true when the engine is not in cooldown.
DebounceThreshold ==
    [][(/\ Returned
        /\ run'.start = "init"
        /\ run'.len >= 1
        /\ cfg.consecutive_frames >= 1)
       => /\ (run'.len < cfg.consecutive_frames => ~result'.is_fall_detected)
          /\ (/\ run'.len = cfg.consecutive_frames
              /\ now - last_alert_time >= cfg.cooldown_seconds)
             => result'.is_fall_detected]_vars

\* frame number consecutive_frames (> 1) of a single-rule run on a fresh engine alarmed
DebounceThresholdWitness ==
    /\ ValidConfig(cfg)
    /\ run.start = "init"
    /\ cfg.consecutive_frames >= 2
    /\ run.len = cfg.consecutive_frames
    /\ result.status = "ok"
    /\ result.is_fall_detected

\* C3: a frame on which at least two distinct rules trigger while the engine is
\* not in cooldown returns is_fall_detected = true, whatever consecutive_detections is.
CrossValidationBypass ==
    [][(/\ Returned
        /\ Cardinality(RulesOf(result'.trigger_reasons)) >= 2
        /\ now - last_alert_time >= cfg.cooldown_seconds)
       => result'.is_fall_detected]_vars

\* two rules alarmed while the counter was still below consecutive_frames
CrossValidationBypassWitness ==
    /\ ValidConfig(cfg)
    /\ result.status = "ok"
    /\ result.is_fall_detected
    /\ Cardinality(RulesOf(result.trigger_reasons)) >= 2
    /\ consecutive_detections < cfg.consecutive_frames
    /\ frames = 1

\* C4: the very next qualifying frame after force_reset_cooldown returns
\* is_fall_detected = true, whatever the clock value is (stated for the
\* configurations that pass validation).
ForceResetPermitsAlarm ==
    [][(/\ Returned
        /\ ValidConfig(cfg)
        /\ run.start = "force_reset_cooldown"
        /\ run.len = 0
        /\ \/ Len(result'.trigger_reasons) >= 2
           \/ consecutive_detections' >= cfg.consecutive_frames)
       => result'.is_fall_detected]_vars

\* the three features of the frame of a result
SameFeatures(r1, r2) ==
    /\ r1.torso_angle = r2.torso_angle
    /\ r1.head_height = r2.head_height
    /\ r1.center_shift = r2.center_shift

\* C5: a frame of a motionless run (same features as the frame before it, no
\* rule triggered on either) never returns is_fall_detected = true.
MotionlessNoAlarm ==
    [][(/\ Returned
        /\ result.status = "ok"
        /\ result.trigger_reasons = <<>>
        /\ result'.trigger_reasons = <<>>
        /\ SameFeatures(result, result'))
       => ~result'.is_fall_detected]_vars

\* C6: on a frame that lacks a shoulder or a hip, torso_angle is None and neither
\* the torso-angle rule nor the center-shift rule triggers; on a frame that lacks
\* the nose, head_height is None and the head-drop rule does not trigger.
MissingJointNoRule ==
    result.status = "ok" =>
       /\ ~(TorsoJoints \subseteq seen) =>
              /\ result.torso_angle = None
              /\ "torso" \notin RulesOf(result.trigger_reasons)
              /\ "center" \notin RulesOf(result.trigger_reasons)
       /\ "nose" \notin seen =>
              /\ result.head_height = None
              /\ "head" \notin RulesOf(result.trigger_reasons)

\* C7: detect never raises, for every joint map, frame_height and accepted
\* configuration.
NoFatalError == result.status # "ZeroDivisionError"

\* C8: no instance holding an invalid configuration ever reaches detect.
InvalidConfigRejected == frames > 0 => ValidConfig(cfg)

\* the last n elements of a sequence
LastN(sq, n) == SubSeq(sq, Len(sq) - n + 1, Len(sq))

\* a buffer is the most recent min(history_size, arrived) samples, in arrival order
IsBoundedFifo(buf, log) ==
    /\ Len(buf) <= history_size
    /\ buf = LastN(log, Min(history_size, Len(log)))

\* C9: each of the three tracker buffers has length <= history_size and holds
\* the most recent min(history_size, number of present samples) values in
\* arrival order (the oldest sample is the one evicted).
BoundedFifoHistory ==
    /\ IsBoundedFifo(torso_history, arrivals.torso)
    /\ IsBoundedFifo(center_history, arrivals.center)
    /\ IsBoundedFifo(head_height_history, arrivals.head)

\* a full buffer evicted its oldest sample while another buffer was left shorter
BoundedFifoHistoryWitness ==
    /\ Len(arrivals.center) > history_size
    /\ Len(center_history) = history_size
    /\ center_history[1] # arrivals.center[1]
    /\ Len(head_height_history) < history_size

\* C10: every DetectionResult returned by detect has 0 <= confidence <= 1.
ConfidenceInUnitInterval ==
    result.status = "ok" =>
       /\ 0 <= result.confidence[1]
       /\ result.confidence[1] <= result.confidence[2]

\* C11: the notifier is invoked for a frame only if a person was detected in it
\* and the DetectionResult of that frame has is_fall_detected = true.
NotifiedOnlyOnAlarm ==
    notified # None =>
        /\ detected
        /\ result.status = "ok"
        /\ result.is_fall_detected

\* the notifier was invoked for an alarm, after a frame that triggered a rule
\* without alarming and was not notified
NotifiedOnlyOnAlarmWitness ==
    /\ ValidConfig(cfg)
    /\ notified # None
    /\ result.is_fall_detected
    /\ frames >= 2
    /\ cfg.consecutive_frames = 2

\* the largest distance between adjacent points of a path
RECURSIVE MaxAdjacent(_)
MaxAdjacent(path) ==
    IF Len(path) < 2 THEN 0
    ELSE Max(calculate_center_shift(path[2], path[1]), MaxAdjacent(Tail(path)))

\* C12: for a center history of at least 5 points, get_max_center_shift(frames=5)
\* is the largest distance between adjacent points among the last 5 buffered
\* points (4 adjacent pairs).
MaxShiftOverLastFive ==
    (/\ answer.op = "get_max_center_shift"
     /\ answer.arg = ShiftWindow
     /\ Len(center_history) >= 5)
    => answer.value = Some(MaxAdjacent(LastN(center_history, 5)))

\* the frame of the last detect call has the torso joints of scenario B
IsScenarioB ==
    /\ TorsoJoints \subseteq DOMAIN frame_landmarks
    /\ \A j \in TorsoJoints : frame_landmarks[j] = ScenarioBPose[j]

\* C13: for the joint map of scenario B the computed torso angle is >= 50
\* degrees, the torso-angle rule triggers with severity SEVERE, and a reason
\* carrying the angle is appended to trigger_reasons.
ScenarioBSevere ==
    (result.status = "ok" /\ IsScenarioB) =>
        /\ result.torso_angle # None
        /\ Val(result.torso_angle) >= 50
        /\ result.severity = SEVERE
        /\ \E i \in DOMAIN result.trigger_reasons :
              result.trigger_reasons[i] = TorsoReason(Val(result.torso_angle))

\* C13 as amended: for the joint map of scenario B the computed torso angle is
\* 0 degrees, the torso-angle rule does not trigger and no torso reason is
\* appended (thresholds above 0).
ScenarioBUpright ==
    (/\ result.status = "ok"
     /\ IsScenarioB
     /\ cfg.mild_angle_range[1] > 0
     /\ cfg.severe_angle_min > 0) =>
        /\ result.torso_angle = Some(0)
        /\ "torso" \notin RulesOf(result.trigger_reasons)
        /\ result.severity # SEVERE

\* detect returned for the joint map of scenario B, with and without other triggers
ScenarioBUprightWitness ==
    /\ result.status = "ok"
    /\ IsScenarioB
    /\ frames = 2
    /\ result.center_shift # None

\* the nose height of a joint map, in pixels
NoseOf(lm) == IF "nose" \in DOMAIN lm THEN Some(lm["nose"][2]) ELSE None

\* C14: scenario C, head_drop_threshold = 100/480 and frame_height = 480: of two
\* consecutive frames whose nose y is 100 and then 400, the first (on a fresh,
\* uncalibrated engine) does not trigger the head-drop rule and the second does.
ScenarioCHeadDrop ==
    [][(Returned /\ cfg.head_drop_threshold = 100) =>
          /\ (/\ head_height_history = <<>>
              /\ baseline_head_height = None
              /\ NoseOf(frame_landmarks') = Some(100))
             => "head" \notin RulesOf(result'.trigger_reasons)
          /\ (/\ result.status = "ok"
              /\ NoseOf(frame_landmarks) = Some(100)
              /\ head_height_history # <<>>
              /\ NoseOf(frame_landmarks') = Some(400))
             => "head" \in RulesOf(result'.trigger_reasons)]_vars

\* the second frame of scenario C on an uncalibrated engine triggered the rule
ScenarioCHeadDropWitness ==
    /\ result.status = "ok"
    /\ baseline_head_height = None
    /\ head_height_history = <<100, 400>>
    /\ NoseOf(frame_landmarks) = Some(400)
    /\ "head" \in RulesOf(result.trigger_reasons)

\* C15: any detect / calibrate / reset_calibration / force_reset_cooldown call
\* on one instance leaves every part of the other instance's state (history
\* buffers, baseline, consecutive_detections, last_alert_time) unchanged.
InstanceIndependence ==
    [][peer'.name = peer.name => peer' = peer]_vars

\* both instances were fed frames and hold different buffers, baselines and
\* alert states
InstanceIndependenceWitness ==
    /\ peer.name = "B"
    /\ peer.torso_history = <<0>>
    /\ torso_history = <<90>>
    /\ peer.is_calibrated
    /\ ~is_calibrated
    /\ consecutive_detections = 1
    /\ peer.consecutive_detections = 0
    /\ last_alert_time > peer.last_alert_time

\* C16: whenever the head-height ratio of a frame is present it lies in [0, 1],
\* also for a nose the pose source reports outside the frame (frame_height > 0).
HeadRatioInUnitInterval ==
    (result.status = "ok" /\ result.head_height # None) =>
        /\ 0 <= Val(result.head_height)
        /\ Val(result.head_height) <= HeightDen

\* C17: every DetectionResult carries the three feature values of its frame
\* (torso_angle, body_center, head_height) besides center_shift,
\* is_fall_detected, severity, trigger_reasons, confidence and timestamp, and a
\* feature field is absent exactly when the feature could not be computed.
ResultCarriesFeatures ==
    result.status = "ok" =>
        /\ {"torso_angle", "body_center", "head_height", "center_shift",
            "is_fall_detected", "severity", "trigger_reasons", "confidence",
            "timestamp"} \subseteq DOMAIN result
        /\ (result.torso_angle = None) <=> ~(TorsoJoints \subseteq seen)
        /\ (result.body_center = None) <=> ~(TorsoJoints \subseteq seen)
        /\ (result.head_height = None) <=> ("nose" \notin seen)

\* C18: for a present torso angle a, the torso-angle rule triggers with SEVERE
\* if a >= severe_angle_min, otherwise with MILD if a >= torso_angle_threshold,
\* otherwise it does not trigger.
TorsoRuleThresholds ==
    (result.status = "ok" /\ result.torso_angle # None) =>
        LET a == Val(result.torso_angle)
            triggered == "torso" \in RulesOf(result.trigger_reasons)
        IN  /\ a >= cfg.severe_angle_min => (triggered /\ result.severity = SEVERE)
            /\ (a < cfg.severe_angle_min /\ a >= cfg.torso_angle_threshold)
                  => (triggered /\ result.severity = MILD)
            /\ (a < cfg.severe_angle_min /\ a < cfg.torso_angle_threshold)
                  => ~triggered

\* C19: on a frame with head height h present, the head-drop rule triggers if
\* and only if (the head buffer holds >= 2 samples and last - previous >
\* head_drop_threshold) or (a baseline exists and h - baseline_head_height >
\* 2 * head_drop_threshold); the comparisons are strict, either condition suffices.
HeadDropRule ==
    [][(Returned /\ result'.head_height # None) =>
          LET h == Val(result'.head_height)
              buf == head_height_history'
              n == Len(buf)
              by_delta == /\ n >= 2
                          /\ Exceeds(buf[n] - buf[n - 1], buf[n], buf[n - 1],
                                     cfg.head_drop_threshold)
              by_baseline == /\ baseline_head_height # None
                             /\ Exceeds(h - Val(baseline_head_height), h,
                                        Val(baseline_head_height),
                                        2 * cfg.head_drop_threshold)
          IN  ("head" \in RulesOf(result'.trigger_reasons)) <=> (by_delta \/ by_baseline)]_vars

\* the rule did not trigger on a rise of exactly head_drop_threshold (100/480
\* to 200/480) on a calibrated engine
HeadDropRuleWitness ==
    /\ result.status = "ok"
    /\ head_height_history = <<100, 200>>
    /\ baseline_head_height = Some(48)
    /\ "head" \notin RulesOf(result.trigger_reasons)

\* C20: the severity of every DetectionResult is the maximum severity over the
\* rules triggered on that frame: NONE iff no rule triggered, SEVERE iff the
\* torso-angle rule triggered with angle >= severe_angle_min, MILD otherwise.
SeverityIsMaximum ==
    result.status = "ok" =>
        LET rules == RulesOf(result.trigger_reasons)
            torso_severe == /\ "torso" \in rules
                            /\ Val(result.torso_angle) >= cfg.severe_angle_min
        IN  /\ (result.severity = NONE) <=> (rules = {})
            /\ (result.severity = SEVERE) <=> torso_severe
            /\ (result.severity = MILD) <=> (rules # {} /\ ~torso_severe)

\* all three rules triggered on a frame and the severity stayed SEVERE
SeverityIsMaximumWitness ==
    /\ result.status = "ok"
    /\ result.severity = SEVERE
    /\ RulesOf(result.trigger_reasons) = {"torso", "head", "center"}


\* C21: every detect call that returns sets consecutive_detections to previous + 1
\* when at least one rule triggered on the frame and to max(0, previous - 1)
\* otherwise, whether or not the alarm is suppressed; consecutive_detections >= 0
\* in every reachable state.
DebounceCounterStep ==
    [][/\ consecutive_detections >= 0
       /\ consecutive_detections' >= 0
       /\ Returned =>
              consecutive_detections' =
                  IF Len(result'.trigger_reasons) > 0
                  THEN consecutive_detections + 1
                  ELSE Max(0, consecutive_detections - 1)]_vars

\* a frame without a trigger took the counter from 2 down to 1, not to 0
DebounceCounterStepWitness ==
    /\ result.status = "ok"
    /\ result.trigger_reasons = <<>>
    /\ consecutive_detections = 1
    /\ frames = 3


\* C22: after an alarm at time T the engine leaves cooldown by itself: a
\* qualifying frame evaluated at now >= T + cooldown_seconds (now = T +
\* cooldown_seconds included) returns is_fall_detected = true; and while lying
\* frames keep arriving and the clock advances, an alarm at T is followed by an
\* alarm at T + cooldown_seconds or later, for every T with T + cooldown_seconds
\* within the clock values of the model.
CooldownExpiry ==
    /\ [][(/\ Returned
           /\ alarm_time # None
           /\ Qualifies(Len(result'.trigger_reasons), consecutive_detections',
                        cfg.consecutive_frames)
           /\ now - Val(alarm_time) >= cfg.cooldown_seconds)
          => result'.is_fall_detected]_vars
    /\ \A T \in 0..MaxTime :
          (alarm_time = Some(T) /\ cfg.cooldown_seconds > 0) ~>
              \/ alarm_time # None /\ Val(alarm_time) >= T + cfg.cooldown_seconds
              \/ T + cfg.cooldown_seconds > MaxTime

\* a frame evaluated exactly cooldown_seconds after the previous alarm alarmed
CooldownExpiryWitness ==
    /\ cfg.cooldown_seconds > 0
    /\ prev_alarm_time # None
    /\ alarm_time = Some(Val(prev_alarm_time) + cfg.cooldown_seconds)
    /\ result.status = "ok"
    /\ result.is_fall_detected
    /\ result.timestamp = Val(alarm_time)


\* the fields of a DetectionResult that the cooldown must not affect
Evaluation(r) ==
    <<r.status, r.severity, r.trigger_reasons, r.torso_angle, r.head_height,
      r.center_shift, r.confidence>>

\* C23: two engines that differ only in last_alert_time and are fed the same
\* frames have, after every frame, identical tracker buffers and
\* consecutive_detections, and results with identical severity, trigger_reasons,
\* torso_angle, head_height, center_shift and confidence.
CooldownOrthogonal ==
    TwinSync =>
        /\ torso_history = peer.torso_history
        /\ center_history = peer.center_history
        /\ head_height_history = peer.head_height_history
        /\ consecutive_detections = peer.consecutive_detections
        /\ Evaluation(result) = Evaluation(peer.result)

\* on the same frame one engine alarmed and the other, in cooldown, did not
CooldownOrthogonalWitness ==
    /\ TwinSync
    /\ result.status = "ok"
    /\ result.is_fall_detected # peer.result.is_fall_detected
    /\ last_alert_time # peer.last_alert_time
    /\ Len(result.trigger_reasons) >= 1


\* C24: for a calibrated and an uncalibrated engine fed the same frames, after
\* every frame the tracker buffers are identical, the torso-angle rule and the
\* center-shift rule have the same outcome in both, and the head-drop rule has
\* triggered in the calibrated engine (A) if it has in the uncalibrated one (B).
CalibrationOnlyAddsHeadDrop ==
    TwinSync =>
        /\ torso_history = peer.torso_history
        /\ center_history = peer.center_history
        /\ head_height_history = peer.head_height_history
        /\ result.status = peer.result.status
        /\ "torso" \in RulesOf(result.trigger_reasons)
              <=> "torso" \in RulesOf(peer.result.trigger_reasons)
        /\ "center" \in RulesOf(result.trigger_reasons)
              <=> "center" \in RulesOf(peer.result.trigger_reasons)
        /\ "head" \in RulesOf(peer.result.trigger_reasons)
              => "head" \in RulesOf(result.trigger_reasons)

\* the frame-to-frame drop triggered the head-drop rule in both engines while
\* the head was less than twice the threshold below the baseline
CalibrationOnlyAddsHeadDropWitness ==
    /\ TwinSync
    /\ is_calibrated
    /\ ~peer.is_calibrated
    /\ "head" \in RulesOf(peer.result.trigger_reasons)
    /\ "head" \in RulesOf(result.trigger_reasons)
    /\ Val(result.head_height) - Val(baseline_head_height) < 2 * cfg.head_drop_threshold


\* min(1, (tc / 3) * s * (0.5 + 0.5 * min(c / cf, 1))) as a fraction <<num, den>>,
\* s = 1.2 for SEVERE and 1.0 otherwise, cf # 0
ClaimedConfidence(tc, severity, c, cf) ==
    LET s10 == IF severity = SEVERE THEN 12 ELSE 10
        m == IF cf > 0 THEN Min(c, cf) ELSE Min(-c, -cf)
        num == tc * s10 * (Abs(cf) + m)
        den == 60 * Abs(cf)
    IN  IF num > den THEN <<1, 1>> ELSE <<num, den>>

\* C25: the confidence of every result is min(1, (trigger_count / 3) * s *
\* (0.5 + 0.5 * min(c / consecutive_frames, 1))), c being consecutive_detections
\* after the frame, and it is 0 exactly when no rule triggered.
ConfidenceFormula ==
    result.status = "ok" =>
       LET claimed == ClaimedConfidence(Len(result.trigger_reasons), result.severity,
                                        consecutive_detections, cfg.consecutive_frames)
       IN  /\ result.confidence[1] * claimed[2] = claimed[1] * result.confidence[2]
           /\ result.confidence[1] = 0 <=> result.trigger_reasons = <<>>


\* C26: on a frame where the alarm fires, last_alert_time after the call is the
\* one time value that was compared against the cooldown, and the timestamp of
\* the result is that same value.
SingleTimeValue ==
    [][(Returned /\ result'.is_fall_detected)
       => /\ last_alert_time' = now
          /\ result'.timestamp = last_alert_time']_vars


\* C27: an engine that has never alerted is not in cooldown: its first
\* qualifying frame returns is_fall_detected = true for every clock value >= 0,
\* clock values below cooldown_seconds included.
FreshEngineNotInCooldown ==
    [][(/\ Returned
        /\ run.start = "init"
        /\ alarm_time = None
        /\ now >= 0
        /\ Qualifies(Len(result'.trigger_reasons), consecutive_detections',
                     cfg.consecutive_frames))
       => result'.is_fall_detected]_vars


\* the points of the center buffer that get_max_center_shift(frames=n) looks at:
\* the last min(n, length - 1) adjacent pairs
ShiftWindowPath(n) == LastN(center_history, Min(n, Len(center_history) - 1) + 1)

\* the distance from the first point of a path to its last
NetDisplacement(path) == calculate_center_shift(path[Len(path)], path[1])

\* the number of adjacent pairs of a path whose points differ
Steps(path) == Cardinality({i \in 1..(Len(path) - 1) : path[i] # path[i + 1]})

\* get_max_center_shift(frames=n) answered the largest adjacent distance of its window
IsWindowMaximum ==
    IF Len(center_history) < 2 THEN answer.value = None
    ELSE answer.value = Some(MaxAdjacent(ShiftWindowPath(answer.arg)))

\* C28 as stated: get_max_center_shift(frames=K) is absent below 2 points and
\* otherwise the largest adjacent distance over the last min(K, length - 1)
\* pairs, and it differs from the net first-to-last displacement of those
\* points whenever they make more than a single step.
MaxShiftDiffersFromNet ==
    answer.op = "get_max_center_shift" =>
        /\ IsWindowMaximum
        /\ (Len(center_history) >= 2 /\ Steps(ShiftWindowPath(answer.arg)) >= 2)
              => answer.value # Some(NetDisplacement(ShiftWindowPath(answer.arg)))

\* C28 (amended): get_max_center_shift(frames=K) is absent below 2 points and
\* otherwise the largest adjacent distance over the last min(K, length - 1)
\* pairs; it is at least the net displacement of those points divided by the
\* number of pairs, and may equal the net displacement.
MaxShiftOverWindow ==
    answer.op = "get_max_center_shift" =>
        /\ IsWindowMaximum
        /\ Len(center_history) >= 2
              => Val(answer.value) * Min(answer.arg, Len(center_history) - 1)
                     >= NetDisplacement(ShiftWindowPath(answer.arg))

\* a window of several steps whose largest step equals its net displacement
MaxShiftOverWindowWitness ==
    /\ answer.op = "get_max_center_shift"
    /\ Steps(ShiftWindowPath(answer.arg)) >= 2
    /\ answer.value = Some(NetDisplacement(ShiftWindowPath(answer.arg)))
    /\ Val(answer.value) > 0


\* the three buffers of the tracker by name
Buffers == [torso |-> torso_history, center |-> center_history,
            head |-> head_height_history]

\* the last size entries of a sequence
Newest(s, size) == SubSeq(s, Len(s) - Min(Len(s), size) + 1, Len(s))

\* C29: an update call appends each present value to its own buffer only
\* (keeping the newest history_size entries) and leaves the buffer of an
\* absent value exactly as it was, whatever happens to the other two; a
\* query call leaves all three buffers unchanged.
UpdateTreatsSignalsApart ==
    [][/\ frames' = frames + 1 =>
              \A b \in DOMAIN Buffers :
                  IF arrivals'[b] = arrivals[b]
                  THEN Buffers'[b] = Buffers[b]
                  ELSE /\ Len(arrivals'[b]) = Len(arrivals[b]) + 1
                       /\ Buffers'[b] =
                              Newest(Append(Buffers[b], arrivals'[b][Len(arrivals'[b])]),
                                     history_size)
       /\ (frames' = frames /\ answer'.op \in QueryOps) => Buffers' = Buffers]_vars

\* two updates carried a torso angle, one of them no head height and neither
\* a center; a query then answered from the torso buffer
UpdateTreatsSignalsApartWitness ==
    /\ frames = 2
    /\ Len(torso_history) = 2
    /\ Len(head_height_history) = 1
    /\ center_history = <<>>
    /\ answer.op = "get_torso_angle_change_rate"
    /\ answer.value # None


\* the tracker holds no sample, as reset leaves it
TrackerEmpty ==
    /\ torso_history = <<>>
    /\ center_history = <<>>
    /\ head_height_history = <<>>

\* C30: reset_calibration clears the baseline (the engine is uncalibrated) and
\* empties the three tracker buffers, leaving consecutive_detections and
\* last_alert_time as they were; the detect call on the first frame after it
\* ends with at most one sample per buffer, reports no center-shift trigger,
\* and a head trigger only against a baseline set since, the head being at
\* least twice the threshold below it (the head-delta branch needs two samples).
ResetCalibrationEffect ==
    [][/\ (frames' = frames /\ ~is_calibrated') =>
              /\ baseline_head_height' = None
              /\ baseline_center' = None
              /\ TrackerEmpty'
              /\ UNCHANGED <<alert_state, cfg, history_size>>
       /\ (frames' = frames + 1 /\ TrackerEmpty) =>
              /\ Len(torso_history') <= 1
              /\ Len(center_history') <= 1
              /\ Len(head_height_history') <= 1
              /\ get_head_height_change(head_height_history') = None
              /\ "center" \notin RulesOf(result'.trigger_reasons)
              /\ "head" \in RulesOf(result'.trigger_reasons) =>
                     /\ baseline_head_height # None
                     /\ Val(result'.head_height) - Val(baseline_head_height)
                            >= 2 * cfg.head_drop_threshold]_vars

\* two frames with a trigger each and a reset_calibration in between: the
\* counter went on to 2 while the buffers started again
ResetCalibrationEffectWitness ==
    /\ frames = 2
    /\ consecutive_detections = 2
    /\ ~is_calibrated
    /\ Len(torso_history) = 1
    /\ Len(center_history) = 1
    /\ Len(head_height_history) = 1
    /\ RulesOf(result.trigger_reasons) = {"torso"}


\* the baseline that calibrate(h, c) stores
BaselineOf(h, c) == <<Some(h), Some(c), TRUE>>

\* C31: a calibrate(h, c) call leaves exactly (h, c) as the baseline whatever
\* the baseline was, changes nothing else (tracker buffers,
\* consecutive_detections, last_alert_time), and a second call with the same
\* arguments changes nothing at all.
CalibrateOverwrites ==
    [][(pc = "calibrate" /\ pc' = "frame") =>
          /\ baseline' = BaselineOf(answer.arg[1], answer.arg[2])
          /\ UNCHANGED <<tracker, alert_state, cfg, now, result>>
          /\ baseline = BaselineOf(answer.arg[1], answer.arg[2])
                 => UNCHANGED <<engine, detected, frame_landmarks, notifier, notified, calls>>]_vars

\* a baseline stored over a different one, with samples in the tracker and a
\* running debounce count
CalibrateOverwritesWitness ==
    /\ answer.op = "calibrate"
    /\ pc = "frame"
    /\ baseline = BaselineOf(0, <<400, 420>>)
    /\ Len(head_height_history) = 2
    /\ consecutive_detections = 1
    /\ frames = 2


\* twice the vector from the exact shoulder midpoint to the exact hip midpoint
TwiceTorsoVector(lm) ==
    <<lm["left_hip"][1] + lm["right_hip"][1]
          - lm["left_shoulder"][1] - lm["right_shoulder"][1],
      lm["left_hip"][2] + lm["right_hip"][2]
          - lm["left_shoulder"][2] - lm["right_shoulder"][2]>>

\* C32: the torso angle of a joint map with the four torso joints is the
\* angle from the vertical of the vector from the exact midpoint of the
\* shoulders to the exact midpoint of the hips, with no rounding or
\* truncation of the midpoints (the angle of a vector is that of its double).
TorsoAngleOfExactMidpoints ==
    (answer.op = "calculate_torso_angle" /\ TorsoJoints \subseteq DOMAIN frame_landmarks) =>
        answer.value =
            Some(calculate_angle_from_vertical(<<0, 0>>, TwiceTorsoVector(frame_landmarks)))


\* both calls returned an alarm, and their cooldown checks lie closer together
\* than cooldown_seconds
DoubleAlarm ==
    /\ \A th \in Threads : calls.t[th].pc = "done" /\ calls.t[th].result.is_fall_detected
    /\ Abs(Val(calls.t[1].checked) - Val(calls.t[2].checked)) < cfg.cooldown_seconds

\* a call evaluated its rules on buffers holding the two calls' samples in one
\* order in the head buffer and in the other order in the center buffer
MixedOrder ==
    \E th \in Threads :
        /\ calls.t[th].pc \notin {"idle", "update_torso", "update_center", "update_head", "rules"}
        /\ Len(calls.t[th].saw.head) = 2
        /\ Len(calls.t[th].saw.center) = 2
        /\ calls.t[th].saw.head # calls.t[th].saw.center

\* C33: when every detect call completes before the next begins, two alarms
\* are never returned within one cooldown interval and no call evaluates its
\* rules over samples in an order that matches neither call order; without
\* that serialization both states are reachable.
SerializedCallsAreSafe ==
    calls.serialized => (~DoubleAlarm /\ ~MixedOrder)

\* two interleaved calls both returned an alarm within one cooldown interval,
\* one of them after evaluating its rules over a mixed sample order
SerializedCallsAreSafeWitness ==
    /\ ~calls.serialized
    /\ DoubleAlarm
    /\ MixedOrder

\* two serialized calls, the second one held back by the cooldown the first started
SerializedCallsWitness ==
    /\ calls.serialized
    /\ \A th \in Threads : calls.t[th].pc = "done"
    /\ \E th \in Threads : calls.t[th].result.is_fall_detected
    /\ \E th \in Threads : ~calls.t[th].result.is_fall_detected
                              /\ Len(calls.t[th].result.trigger_reasons) > 0


\* C34: with consecutive_frames = 5 and the shift window of 5, a session of
\* identical calm frames with one frame whose body center is displaced by
\* more than center_shift_threshold (torso upright, nose unchanged) returns
\* is_fall_detected = true neither on that frame nor on any later one.
SingleFrameNoiseNeverAlarms ==
    (Disturbed /\ result.status = "ok") => ~result.is_fall_detected


\* C35: whenever detect returns is_fall_detected = true, a rule triggered on
\* that frame: trigger_reasons is not empty, the severity is not NONE and the
\* confidence is above 0.
AlarmHasEvidence ==
    (result.status = "ok" /\ result.is_fall_detected) =>
        /\ Len(result.trigger_reasons) > 0
        /\ result.severity # NONE
        /\ result.confidence[1] > 0


\* C36: last_alert_time changes only in a detect call that returns
\* is_fall_detected = true (to a clock value read during the call) and in
\* force_reset_cooldown (to 0); frames suppressed by the cooldown, frames that
\* do not qualify, calibrate and reset_calibration leave it as it is.
LastAlertTimeWriters ==
    [][last_alert_time' # last_alert_time =>
          \/ /\ frames' = frames + 1
             /\ result'.status = "ok"
             /\ result'.is_fall_detected
             /\ last_alert_time' \in now..now'
          \/ /\ frames' = frames
             /\ last_alert_time' = 0
             /\ consecutive_detections' = 0
             /\ run' = FreshRun("force_reset_cooldown")]_vars


\* C37: without a baseline the head-drop rule triggers on a frame only if the
\* previous detect call saw a head too and the head height rose by at least
\* head_drop_threshold from that call to this one; a rise across frames
\* without a nose does not count.
HeadDeltaIsFrameToFrame ==
    [][(frames' = frames + 1 /\ ~is_calibrated
            /\ "head" \in RulesOf(result'.trigger_reasons)) =>
          /\ result.status = "ok"
          /\ result.head_height # None
          /\ Val(result'.head_height) - Val(result.head_height)
                 >= cfg.head_drop_threshold]_vars


\* C38: after force_reset_cooldown, while one and the same single rule
\* triggers on every frame, detect returns is_fall_detected = false on frames
\* 1 .. consecutive_frames - 1 after the call and true on frame
\* consecutive_frames (stated for the configurations that pass validation).
ResetRestartsDebounce ==
    (/\ ValidConfig(cfg)
     /\ run.start = "force_reset_cooldown"
     /\ result.status = "ok"
     /\ run.len \in 1..cfg.consecutive_frames)
    => (result.is_fall_detected <=> run.len = cfg.consecutive_frames)


\* C39: an iteration of the main loop whose frame shows no person leaves the
\* tracker buffers, consecutive_detections, last_alert_time and the baseline
\* unchanged (the counter does not decay), and the first frame with a person
\* after it is measured against the last center buffered before.
NoPersonLeavesEngineAlone ==
    [][/\ (pc = "frame" /\ pc' = "key" /\ ~detected') =>
              /\ UNCHANGED <<tracker, alert_state, baseline, cfg>>
              /\ result'.status = "no_person"
              /\ ~result'.is_fall_detected
              /\ notified' = None
       /\ (pc = "frame" /\ pc' = "key" /\ detected' /\ ~detected
               /\ center_history # <<>>) =>
              result'.center_shift =
                  Some(calculate_center_shift(
                           Val(calculate_body_center(frame_landmarks')),
                           center_history[Len(center_history)]))]_vars

\* the subject went out of view with a running debounce count and buffered samples
NoPersonLeavesEngineAloneWitness ==
    /\ pc = "key"
    /\ ~detected
    /\ result.status = "no_person"
    /\ consecutive_detections >= 1
    /\ Len(center_history) >= 1
    /\ Len(head_height_history) >= 1

====
